---- MODULE Spec2Model ----
(***************************************************************************)
(* A model of the haste-map builder of src/src/index.ts, its watchman      *)
(* crawler (src/src/crawlers/watchman.ts) and its file worker.             *)
(*                                                                         *)
(* The index (InternalHasteMap) is a record of finite maps.  A JavaScript  *)
(* Map is a function whose DOMAIN is its key set.  A FileMetaData tuple is *)
(* a record whose fields carry the names of the H indices.                 *)
(***************************************************************************)
EXTENDS FiniteSets, Integers, Sequences, TLC

(***************************************************************************)
(* Bounds of the model.                                                    *)
(***************************************************************************)
\* how many files of the source tree are modelled
NumPaths == 3

(***************************************************************************)
(* Program constants (the H table).                                        *)
(***************************************************************************)
H_MODULE == 0
H_PACKAGE == 1
GENERIC_PLATFORM == "g"

\* the value JavaScript calls null (or undefined) where a string may stand
Null == "null"

\* rootDir of the builder; the one watch root is rootDir itself
rootDir == "/r"

\* paths relative to rootDir, in the order a listing returns them
AllPaths == <<"a.js", "b.js", "c.js", "d.js", "e.js">>
PathSeq == SubSeq(AllPaths, 1, NumPaths)
Paths == {PathSeq[i] : i \in 1..Len(PathSeq)}

\* a package.json at rootDir, one below it, and a file under node_modules
SpecialPaths == <<"node_modules/x/i.js", "package.json", "x/package.json">>

\* every path of the model, in the order a listing returns them
ListingOrder == PathSeq \o SpecialPaths

\* haste names a file may declare; "" is "declares none"
NoName == ""
HasteNames == {"Foo"}

\* in place of a name: the content of a package.json that JSON.parse rejects
Unparsable == "{"

\* the empty Map / the empty object
EmptyMap == <<>>

\* a Map with one more key (Map.set) and with one key less (Map.delete)
MapSet(m, k, v) == [x \in (DOMAIN m) \cup {k} |-> IF x = k THEN v ELSE m[x]]
MapDelete(m, k) == [x \in (DOMAIN m) \ {k} |-> m[x]]

\* two watch roots below rootDir, and the files they can hold: the name the
\* daemon lists a file under and its path relative to rootDir
WatchRoots == <<"/r/app", "/r/lib">>
RootFiles ==
  <<[watchRoot |-> "/r/app", name |-> "m.js", relative |-> "app/m.js"],
    [watchRoot |-> "/r/lib", name |-> "u.js", relative |-> "lib/u.js"],
    [watchRoot |-> "/r/lib", name |-> "v.js", relative |-> "lib/v.js"]>>

\* path.relative(rootDir, fsRoot): "" when the watch root is rootDir
RelativeRoot(watchRoot) ==
  IF watchRoot = rootDir THEN ""
  ELSE IF watchRoot = WatchRoots[1] THEN "app" ELSE "lib"

\* path.relative(rootDir, fsRoot + sep + name) for a file the watch root lists
RelativeFilePath(watchRoot, name) ==
  IF watchRoot = rootDir THEN name
  ELSE RootFiles[CHOOSE i \in 1..Len(RootFiles) :
                   RootFiles[i].watchRoot = watchRoot /\ RootFiles[i].name = name].relative

\* relativeFilePath.endsWith(PACKAGE_JSON), PACKAGE_JSON = sep + "package.json"
EndsWithPackageJson(p) == p \in {"x/package.json"}

\* path.resolve(rootDir, p).endsWith(PACKAGE_JSON): the worker's test, on the
\* absolute path
IsPackageJsonFile(p) == p \in {"package.json", "x/package.json"}

\* path.resolve(rootDir, p).includes(NODE_MODULES)
IncludesNodeModules(p) == p \in {"node_modules/x/i.js"}

(***************************************************************************)
(* The file system and the watch daemon (the environment).                 *)
(* A tree is a Map from the paths that exist to the files there.           *)
(***************************************************************************)
\* a file on disk: the haste name its content declares and its mtime
DiskFile(name, mtime) == [name |-> name, mtime |-> mtime]

\* the size watchman reports for a file
SizeOf(file) == IF file.name = NoName THEN 10 ELSE 20

VARIABLES
  disk,           \* the tree now
  prevDisk,       \* the tree when the cached index was written
  cacheFile,      \* the cache file: <<>> if there is none, else <<index>>
  pc,             \* where the build is
  buildPromise,   \* HasteMap._buildPromise: is it set
  hasteMap,       \* the InternalHasteMap of the build in progress
  changedFiles,   \* the crawl's changedFiles: [present, entries]
  removedFiles,   \* the crawl's removedFiles
  map,            \* _buildHasteMap's local map
  mapIsHasteMap,  \* TRUE when that local is the very object hasteMap.map
  filesToProcess, \* the keys of _buildHasteMap's filesToProcess
  handled,        \* files whose worker result has been applied
  warnings,       \* what console.warn received, in order
  dispatched,     \* history: <<the state _buildHasteMap left for the workers>>
  options,        \* the builder's options (resetCache, computeSha1, retainAllFiles)
  cacheFault,     \* what reading and decoding the cache file runs into
  daemon,         \* the watch daemon: its clock, its capabilities, is it failing
  buildReturned,  \* what each call of build() handed to its caller: <<>> for
                  \* undefined, else <<what the promise it returned settles to>>
  events,         \* the events the builder emitted, in order
  thrown,         \* <<>>, or <<the error the build cycle was rejected with>>
  hasteImplModulePath, \* the worker module's hasteImplModulePath (and with it
                  \* its hasteImpl): Null until a task sets it
  workerLog,      \* history: the tasks a worker process ran and their outcomes
  responses,      \* history: the [watchRoot, response] pairs of the crawl
  roots,          \* getWathmanRoots: what watch-project answers for each root
  replied,        \* getWathmanRoots: the roots whose answer has arrived
  watchmanRootsHash, \* getWathmanRoots: the Map from watch root to directories
  queries,        \* history: per call of watchmanCrawl, the queries it sent, the
                  \* responses and the clocks it stored
  client,         \* the watchman.Client of the crawl: "none", "open" or "ended"
  crawlStep       \* where a call of watchmanCrawl is

vars == <<disk, prevDisk, cacheFile, pc, buildPromise, hasteMap, changedFiles,
          removedFiles, map, mapIsHasteMap, filesToProcess, handled, warnings,
          dispatched, options, cacheFault, daemon, buildReturned, events, thrown,
          hasteImplModulePath, workerLog, responses, roots, replied,
          watchmanRootsHash, queries, client, crawlStep>>

\* what no step of the builder changes: the tree, the cache file, the options
\* and the daemon
environment == <<disk, prevDisk, cacheFile, options, cacheFault, daemon>>

\* the module state of a worker process and the record of its tasks
workerProcess == <<hasteImplModulePath, workerLog>>

\* the state of the resolution of the roots by the watch client
rootResolution == <<roots, replied, watchmanRootsHash>>

\* the queries the crawls sent and the connection of the crawl in progress
watchClient == <<queries, client, crawlStep>>

(***************************************************************************)
(* HasteMap._createEmptyMap                                                *)
(***************************************************************************)
createEmptyMap ==
  [clocks |-> EmptyMap, duplicates |-> EmptyMap, files |-> EmptyMap,
   map |-> EmptyMap, mocks |-> EmptyMap]

\* a FileMetaData tuple [id, mtime, size, visited, dependencies, sha1]
FileMetaData(id, mtime, size, visited, dependencies, sha1) ==
  [id |-> id, mtime |-> mtime, size |-> size, visited |-> visited,
   dependencies |-> dependencies, sha1 |-> sha1]

\* a ModuleMetaData tuple [path, type]
ModuleMetaData(path, type) == [path |-> path, type |-> type]

(***************************************************************************)
(* What an earlier, complete build has left in the cache file for a tree:  *)
(* the index the design describes (sections 3 and 4.6).  The code under    *)
(* src/ never writes the cache file, so its content is an input.           *)
(***************************************************************************)
ClaimantsOf(tree, id) == {p \in DOMAIN tree : tree[p].name = id}

PersistedIndex(tree) ==
  [clocks |-> MapSet(EmptyMap, RelativeRoot(rootDir), "c1"),
   files |-> [p \in DOMAIN tree |->
                FileMetaData(tree[p].name, tree[p].mtime, SizeOf(tree[p]), 1, <<>>, Null)],
   map |-> [id \in {n \in HasteNames : Cardinality(ClaimantsOf(tree, n)) = 1} |->
              MapSet(EmptyMap, GENERIC_PLATFORM,
                     ModuleMetaData(CHOOSE p \in ClaimantsOf(tree, id) : TRUE, H_MODULE))],
   duplicates |-> [id \in {n \in HasteNames : Cardinality(ClaimantsOf(tree, n)) >= 2} |->
              MapSet(EmptyMap, GENERIC_PLATFORM,
                     [p \in ClaimantsOf(tree, id) |-> H_MODULE])],
   mocks |-> EmptyMap]

(***************************************************************************)
(* The reply of the watch daemon to the query of one watch root.           *)
(* hasSince: the query carries a since clock.                              *)
(***************************************************************************)
\* the digest of a file's content (40 hexadecimal characters)
DigestOf(file) == IF file.name = NoName THEN "sha1:" ELSE "sha1:Foo"

\* lines 282-295: content.sha1hex is a field of the query when computeSha1 is
\* set and the daemon lists the capability
QueriesSha1 == options.computeSha1 /\ daemon.sha1hex

ResponseFile(p, tree) ==
  IF p \notin DOMAIN tree
    THEN [name |-> p, exists |-> FALSE, mtime_ms |-> 0, size |-> 0,
          sha1hex |-> Null]
    ELSE [name |-> p, exists |-> TRUE, mtime_ms |-> tree[p].mtime,
          size |-> SizeOf(tree[p]),
          sha1hex |-> IF QueriesSha1 THEN DigestOf(tree[p]) ELSE Null]

\* the files a query names: all that exist (no since clock, or a fresh
\* instance), or those that differ from the tree at the since clock
ReportedPaths(hasSince, fresh) ==
  IF ~hasSince \/ fresh
    THEN DOMAIN disk
    ELSE {p \in (DOMAIN disk) \cup (DOMAIN prevDisk) :
            \/ (p \in DOMAIN disk) # (p \in DOMAIN prevDisk)
            \/ (p \in DOMAIN disk /\ disk[p] # prevDisk[p])}

ReportedSeq(hasSince, fresh) ==
  SelectSeq(ListingOrder, LAMBDA p : p \in ReportedPaths(hasSince, fresh))

WatchmanQueryResponse(hasSince, fresh) ==
  [is_fresh_instance |-> fresh,
   clock |-> daemon.clock,
   files |-> [i \in 1..Len(ReportedSeq(hasSince, fresh)) |->
                ResponseFile(ReportedSeq(hasSince, fresh)[i], disk)]]

(***************************************************************************)
(* watchmanCrawl (src/src/crawlers/watchman.ts)                            *)
(***************************************************************************)
\* clock specs that are SCM objects ({scm: {"mergebase-with": ...}})
ScmClockSpecs == {"scm:mergebase-with"}

\* content digests that are strings of 40 characters
Sha1Hexes == {"sha1:", "sha1:Foo"}

\* lines 407-409: the query's since is an SCM object
isSourceControlQuery(clocks, watchRoot) ==
  /\ RelativeRoot(watchRoot) \in DOMAIN clocks
  /\ clocks[RelativeRoot(watchRoot)] \in ScmClockSpecs

\* isFresh taken from the response that completed first only
queryIsFresh_FirstResponseOnly(clocks, results) ==
  /\ Len(results) > 0
  /\ ~isSourceControlQuery(clocks, results[1].watchRoot)
  /\ results[1].response.is_fresh_instance

\* isFresh without the test of isSourceControlQuery: every response counts
queryIsFresh_CountsScm(clocks, results) ==
  \E i \in 1..Len(results) : results[i].response.is_fresh_instance

\* lines 411-413, over all the responses: results is a sequence of
\* [watchRoot, response]
queryIsFresh(clocks, results) ==
  \E i \in 1..Len(results) :
    /\ ~isSourceControlQuery(clocks, results[i].watchRoot)
    /\ results[i].response.is_fresh_instance

\* nextData without the branch of lines 506-520: a touched file is pristine
\* even when its digest is the previous one
nextData_NoSha1Shortcut(has, existingFileData, fileData) ==
  IF has /\ existingFileData.mtime = fileData.mtime_ms
    THEN existingFileData
    ELSE FileMetaData("", fileData.mtime_ms, fileData.size, 0, <<>>,
                      IF fileData.sha1hex \in Sha1Hexes THEN fileData.sha1hex ELSE Null)

\* lines 498-523: the entry stored for a file that exists
nextData(has, existingFileData, fileData) ==
  LET mtime == fileData.mtime_ms
      size == fileData.size
      sha1hex == IF fileData.sha1hex \in Sha1Hexes THEN fileData.sha1hex ELSE Null
  IN  IF has /\ existingFileData.mtime = mtime
        THEN existingFileData
      ELSE IF has /\ sha1hex # Null /\ existingFileData.sha1 = sha1hex
        THEN FileMetaData(existingFileData.id, mtime, existingFileData.size,
                          existingFileData.visited, existingFileData.dependencies,
                          existingFileData.sha1)
      ELSE FileMetaData("", mtime, size, 0, <<>>, sha1hex)

\* crawlFile without `files.delete(relativeFilePath)` (line 481): a deleted
\* file is recorded in removedFiles and stays in files
crawlFile_KeepsDeleted(st, dataFiles, isFresh, watchRoot, fileData) ==
  LET relativeFilePath == RelativeFilePath(watchRoot, fileData.name)
      has == relativeFilePath \in DOMAIN dataFiles
  IN  IF ~fileData.exists
        THEN IF has /\ ~isFresh
               THEN [st EXCEPT !.removedFiles =
                       MapSet(@, relativeFilePath, dataFiles[relativeFilePath])]
               ELSE st
        ELSE LET next == nextData(has, dataFiles[relativeFilePath], fileData)
             IN  [files |-> MapSet(st.files, relativeFilePath, next),
                  removedFiles |-> MapDelete(st.removedFiles, relativeFilePath),
                  changedFiles |-> MapSet(st.changedFiles, relativeFilePath, next)]

\* crawlFile without the test of line 480: the deletion of a file the index
\* does not track is recorded in removedFiles
crawlFile_RecordsUntracked(st, dataFiles, isFresh, watchRoot, fileData) ==
  LET relativeFilePath == RelativeFilePath(watchRoot, fileData.name)
  IN  IF ~fileData.exists
        THEN [files |-> MapDelete(st.files, relativeFilePath),
              removedFiles |->
                MapSet(st.removedFiles, relativeFilePath,
                       IF relativeFilePath \in DOMAIN dataFiles
                         THEN dataFiles[relativeFilePath]
                         ELSE FileMetaData("", 0, 0, 0, <<>>, Null)),
              changedFiles |-> st.changedFiles]
        ELSE LET has == relativeFilePath \in DOMAIN dataFiles
                 next == nextData(has, dataFiles[relativeFilePath], fileData)
             IN  [files |-> MapSet(st.files, relativeFilePath, next),
                  removedFiles |-> MapDelete(st.removedFiles, relativeFilePath),
                  changedFiles |-> MapSet(st.changedFiles, relativeFilePath, next)]

\* lines 462-527: one file of one response.  st = [files, removedFiles,
\* changedFiles]; dataFiles is data.files, which is the very Map `files`
\* unless the crawl is fresh
crawlFile(st, dataFiles, isFresh, watchRoot, fileData) ==
  LET relativeFilePath == RelativeFilePath(watchRoot, fileData.name)
      lookup == IF isFresh THEN dataFiles ELSE st.files
      has == relativeFilePath \in DOMAIN lookup
      existingFileData == lookup[relativeFilePath]
      removed1 == IF isFresh /\ has /\ fileData.exists
                    THEN MapDelete(st.removedFiles, relativeFilePath)
                    ELSE st.removedFiles
  IN  IF ~fileData.exists
        THEN IF has
               THEN [files |-> MapDelete(st.files, relativeFilePath),
                     removedFiles |->
                       IF ~isFresh
                         THEN MapSet(removed1, relativeFilePath, existingFileData)
                         ELSE removed1,
                     changedFiles |-> st.changedFiles]
               ELSE [st EXCEPT !.removedFiles = removed1]
        ELSE LET next == nextData(has, existingFileData, fileData)
             IN  [files |-> MapSet(st.files, relativeFilePath, next),
                  removedFiles |-> removed1,
                  changedFiles |-> MapSet(st.changedFiles, relativeFilePath, next)]

RECURSIVE crawlFiles(_, _, _, _, _, _)
crawlFiles(st, dataFiles, isFresh, watchRoot, files, i) ==
  IF i > Len(files) THEN st
  ELSE crawlFiles(crawlFile(st, dataFiles, isFresh, watchRoot, files[i]),
                  dataFiles, isFresh, watchRoot, files, i + 1)

\* response.clock.clock of a response whose clock is an SCM object
ScmLocalClock == "c3"

\* the clock of the response stored as it is, an SCM object included
localClock_StoresResponseClock(response) == response.clock

\* lines 455-460: the clock stored for a response
localClock(response) ==
  IF response.clock \in ScmClockSpecs THEN ScmLocalClock ELSE response.clock

\* lines 451-529: the loop over the responses.  acc = [clocks, st]
RECURSIVE crawlResults(_, _, _, _, _)
crawlResults(acc, dataFiles, isFresh, results, i) ==
  IF i > Len(results) THEN acc
  ELSE crawlResults(
         [clocks |-> MapSet(acc.clocks, RelativeRoot(results[i].watchRoot),
                            localClock(results[i].response)),
          st |-> crawlFiles(acc.st, dataFiles, isFresh, results[i].watchRoot,
                            results[i].response.files, 1)],
         dataFiles, isFresh, results, i + 1)

\* watchmanCrawl without `removedFiles = new Map(data.files)` on a fresh
\* instance: the files the daemon no longer lists would be forgotten silently
watchmanCrawl_FreshForgetsRemoved(data, results) ==
  LET isFresh == queryIsFresh(data.clocks, results)
      st0 == [files |-> IF isFresh THEN EmptyMap ELSE data.files,
              removedFiles |-> EmptyMap,
              changedFiles |-> EmptyMap]
      acc == crawlResults([clocks |-> data.clocks, st |-> st0], data.files,
                          isFresh, results, 1)
  IN  [changedFiles |-> [present |-> ~isFresh,
                         entries |-> IF isFresh THEN EmptyMap
                                     ELSE acc.st.changedFiles],
       hasteMap |-> [data EXCEPT !.clocks = acc.clocks, !.files = acc.st.files],
       removedFiles |-> acc.st.removedFiles]

\* lines 425-537: what the crawl returns for the responses of its queries
watchmanCrawl(data, results) ==
  LET isFresh == queryIsFresh(data.clocks, results)
      st0 == [files |-> IF isFresh THEN EmptyMap ELSE data.files,
              removedFiles |-> IF isFresh THEN data.files ELSE EmptyMap,
              changedFiles |-> EmptyMap]
      acc == crawlResults([clocks |-> data.clocks, st |-> st0], data.files,
                          isFresh, results, 1)
  IN  [changedFiles |-> [present |-> ~isFresh,
                         entries |-> IF isFresh THEN EmptyMap
                                     ELSE acc.st.changedFiles],
       hasteMap |-> [data EXCEPT !.clocks = acc.clocks, !.files = acc.st.files],
       removedFiles |-> acc.st.removedFiles]

(***************************************************************************)
(* HasteMap._recoverDuplicates (src/src/index.ts)                          *)
(***************************************************************************)
\* _recoverDuplicates without the lines that drop the platform's entry and the
\* module name from duplicates once a single contender is left: the fault
\* that would strand a one-path entry
recoverDuplicates_KeepsLastContender(hm, relativeFilePath, moduleName) ==
  IF moduleName \notin DOMAIN hm.duplicates THEN hm
  ELSE
    LET dupsByPlatform == hm.duplicates[moduleName]
    IN  IF GENERIC_PLATFORM \notin DOMAIN dupsByPlatform THEN hm
        ELSE
          LET dups == MapDelete(dupsByPlatform[GENERIC_PLATFORM], relativeFilePath)
              copied == MapSet(dupsByPlatform, GENERIC_PLATFORM, dups)
              hm1 == [hm EXCEPT !.duplicates = MapSet(@, moduleName, copied)]
          IN  IF Cardinality(DOMAIN dups) # 1 THEN hm1
              ELSE
                LET last == CHOOSE q \in DOMAIN dups : TRUE
                    uniqueModule == ModuleMetaData(last, dups[last])
                    dedupMap == IF moduleName \in DOMAIN hm.map
                                  THEN hm.map[moduleName] ELSE EmptyMap
                IN  [hm1 EXCEPT
                       !.map = MapSet(@, moduleName,
                                      MapSet(dedupMap, GENERIC_PLATFORM, uniqueModule))]

\* _recoverDuplicates without the promotion of the last contender into map:
\* the fault that would lose the survivor
recoverDuplicates_NoPromotion(hm, relativeFilePath, moduleName) ==
  IF moduleName \notin DOMAIN hm.duplicates THEN hm
  ELSE
    LET dupsByPlatform == hm.duplicates[moduleName]
    IN  IF GENERIC_PLATFORM \notin DOMAIN dupsByPlatform THEN hm
        ELSE
          LET dups == MapDelete(dupsByPlatform[GENERIC_PLATFORM], relativeFilePath)
              copied == MapSet(dupsByPlatform, GENERIC_PLATFORM, dups)
              hm1 == [hm EXCEPT !.duplicates = MapSet(@, moduleName, copied)]
          IN  IF Cardinality(DOMAIN dups) # 1 THEN hm1
              ELSE
                LET rest == MapDelete(copied, GENERIC_PLATFORM)
                IN  [hm1 EXCEPT
                       !.duplicates = IF Cardinality(DOMAIN rest) = 0
                                        THEN MapDelete(@, moduleName)
                                        ELSE MapSet(@, moduleName, rest)]

\* recoverDuplicates that tests `dups.size === 0` in place of line 421: a
\* remaining contender is promoted although others remain as well
recoverDuplicates_PromotesWhileContended(hm, relativeFilePath, moduleName) ==
  IF moduleName \notin DOMAIN hm.duplicates THEN hm
  ELSE
    LET dupsByPlatform == hm.duplicates[moduleName]
    IN  IF GENERIC_PLATFORM \notin DOMAIN dupsByPlatform THEN hm
        ELSE
          LET dups == MapDelete(dupsByPlatform[GENERIC_PLATFORM], relativeFilePath)
              copied == MapSet(dupsByPlatform, GENERIC_PLATFORM, dups)
              hm1 == [hm EXCEPT !.duplicates = MapSet(@, moduleName, copied)]
          IN  IF Cardinality(DOMAIN dups) = 0 THEN hm1
              ELSE
                LET first == CHOOSE q \in DOMAIN dups : TRUE
                    dedupMap == IF moduleName \in DOMAIN hm.map
                                  THEN hm.map[moduleName] ELSE EmptyMap
                IN  [hm1 EXCEPT
                       !.map = MapSet(@, moduleName,
                                      MapSet(dedupMap, GENERIC_PLATFORM,
                                             ModuleMetaData(first, dups[first]))),
                       !.duplicates = MapDelete(@, moduleName)]

\* lines 393-443
recoverDuplicates(hm, relativeFilePath, moduleName) ==
  IF moduleName \notin DOMAIN hm.duplicates THEN hm
  ELSE
    LET dupsByPlatform == hm.duplicates[moduleName]
    IN  IF GENERIC_PLATFORM \notin DOMAIN dupsByPlatform THEN hm
        ELSE
          LET dups == MapDelete(dupsByPlatform[GENERIC_PLATFORM], relativeFilePath)
              copied == MapSet(dupsByPlatform, GENERIC_PLATFORM, dups)
              hm1 == [hm EXCEPT !.duplicates = MapSet(@, moduleName, copied)]
          IN  IF Cardinality(DOMAIN dups) # 1 THEN hm1
              ELSE
                LET last == CHOOSE q \in DOMAIN dups : TRUE
                    uniqueModule == ModuleMetaData(last, dups[last])
                    dedupMap == IF moduleName \in DOMAIN hm.map
                                  THEN hm.map[moduleName] ELSE EmptyMap
                    rest == MapDelete(copied, GENERIC_PLATFORM)
                IN  [hm1 EXCEPT
                       !.map = MapSet(@, moduleName,
                                      MapSet(dedupMap, GENERIC_PLATFORM, uniqueModule)),
                       !.duplicates = IF Cardinality(DOMAIN rest) = 0
                                        THEN MapDelete(@, moduleName)
                                        ELSE MapSet(@, moduleName, rest)]

\* lines 196-198: the loop over removedFiles, in the order the Map yields
RECURSIVE recoverRemoved(_, _, _, _)
recoverRemoved(hm, removed, order, i) ==
  IF i > Len(order) THEN hm
  ELSE recoverRemoved(recoverDuplicates(hm, order[i], removed[order[i]].id),
                      removed, order, i + 1)

\* the orders in which a Map with these keys can yield them
OrdersOf(S) ==
  {o \in [1..Cardinality(S) -> S] : \A i, j \in 1..Cardinality(S) : i # j => o[i] # o[j]}

(***************************************************************************)
(* HasteMap._processFile: setModule and the worker callbacks               *)
(***************************************************************************)
\* setModule that also stores the module under its platform when none is
\* indexed there: the last result applied for a contended id would win
setModule_StoresModule(m, id, module) ==
  LET created == id \notin DOMAIN m
      moduleMap == IF created THEN EmptyMap ELSE m[id]
      hasExisting == GENERIC_PLATFORM \in DOMAIN moduleMap
  IN  IF hasExisting /\ moduleMap[GENERIC_PLATFORM].path # module.path
        THEN [map |-> MapSet(m, id, MapDelete(moduleMap, GENERIC_PLATFORM)),
              warned |-> <<[id |-> id,
                            existing |-> moduleMap[GENERIC_PLATFORM].path,
                            module |-> module.path]>>]
        ELSE [map |-> MapSet(m, id, MapSet(moduleMap, GENERIC_PLATFORM, module)),
              warned |-> <<>>]

\* setModule without the comparison of the paths (line 260): an entry for the
\* very file of the module counts as a collision
setModule_SamePathCollides(m, id, module) ==
  LET created == id \notin DOMAIN m
      moduleMap == IF created THEN EmptyMap ELSE m[id]
      m1 == IF created THEN MapSet(m, id, moduleMap) ELSE m
  IN  IF GENERIC_PLATFORM \in DOMAIN moduleMap
        THEN [map |-> MapSet(m1, id, MapDelete(moduleMap, GENERIC_PLATFORM)),
              warned |-> <<[id |-> id,
                            existing |-> moduleMap[GENERIC_PLATFORM].path,
                            module |-> module.path]>>]
        ELSE [map |-> m1, warned |-> <<>>]

\* lines 251-287.  m is the Map `map`; the result is the Map after the call
\* and what the call handed to console.warn
setModule(m, id, module) ==
  LET created == id \notin DOMAIN m
      moduleMap == IF created THEN EmptyMap ELSE m[id]
      m1 == IF created THEN MapSet(m, id, moduleMap) ELSE m
      hasExisting == GENERIC_PLATFORM \in DOMAIN moduleMap
  IN  IF hasExisting /\ moduleMap[GENERIC_PLATFORM].path # module.path
        THEN LET deleted == MapDelete(moduleMap, GENERIC_PLATFORM)
                 m2 == MapSet(m1, id, deleted)
             IN  [map |-> IF Cardinality(DOMAIN deleted) = 1
                            THEN MapDelete(m2, id) ELSE m2,
                  warned |-> <<[id |-> id,
                                existing |-> moduleMap[GENERIC_PLATFORM].path,
                                module |-> module.path]>>]
        ELSE [map |-> m1, warned |-> <<>>]

\* metadata.module of a worker result that carries none
NullModule == [path |-> Null, type |-> H_MODULE]

\* H.DEPENDENCY_DELIM
DEPENDENCY_DELIM == "\\0"

\* dependencies.join(H.DEPENDENCY_DELIM): a string is the sequence of its parts
RECURSIVE join(_)
join(dependencies) ==
  IF Len(dependencies) = 0 THEN <<>>
  ELSE IF Len(dependencies) = 1 THEN <<dependencies[1]>>
  ELSE <<dependencies[1], DEPENDENCY_DELIM>> \o join(Tail(dependencies))

\* a WorkerMetadata; dependencies <<>> also stands for null
WorkerMetadata(id, module, dependencies, sha1) ==
  [id |-> id, module |-> module, dependencies |-> dependencies, sha1 |-> sha1]

\* lines 301-319: the entry of the file after workerReply, before setModule
workerReplyFile(fileMetadata, metadata) ==
  [fileMetadata EXCEPT
     !.visited = 1,
     !.id = IF metadata.id \notin {Null, ""} /\ metadata.module # NullModule
              THEN metadata.id ELSE @,
     !.dependencies = join(metadata.dependencies),
     !.sha1 = metadata.sha1]

\* lines 301-319: workerReply on the Map `map`
workerReplyMap(m, metadata) ==
  IF metadata.id \notin {Null, ""} /\ metadata.module # NullModule
    THEN setModule(m, metadata.id, metadata.module)
    ELSE [map |-> m, warned |-> <<>>]

(***************************************************************************)
(* The result the worker pool hands to workerReply for a file: what the    *)
(* design (section 4.4) requires of a worker for the file's content.       *)
(***************************************************************************)
\* step 5: the digest, when computeSha1 is set and the entry the file was
\* dispatched with carries none
WorkerSha1For(p) ==
  IF /\ options.computeSha1
     /\ Len(dispatched) = 1
     /\ p \in DOMAIN dispatched[1].hasteMap.files
     /\ dispatched[1].hasteMap.files[p].sha1 = Null
    THEN DigestOf(disk[p]) ELSE Null

WorkerResultFor(p) ==
  IF disk[p].name = NoName
    THEN WorkerMetadata(Null, NullModule, <<>>, WorkerSha1For(p))
    ELSE WorkerMetadata(disk[p].name,
                        ModuleMetaData(p, IF IsPackageJsonFile(p) THEN H_PACKAGE
                                          ELSE H_MODULE),
                        <<>>, WorkerSha1For(p))

(***************************************************************************)
(* The initial states: a tree, the tree an earlier index was written for,  *)
(* and the cache file.  A file whose mtime is unchanged is unchanged.      *)
(***************************************************************************)
AllNames == {NoName} \cup HasteNames

TreesOver(paths, mtimes) ==
  UNION {[S -> {DiskFile(n, m) : n \in AllNames, m \in mtimes}] : S \in SUBSET paths}

TreesAt(mtimes) == TreesOver(Paths, mtimes)

\* the options a builder is created with when none is given
DefaultOptions == [resetCache |-> FALSE, computeSha1 |-> FALSE, retainAllFiles |-> FALSE]

\* a daemon that answers, with a string clock and without content.sha1hex
PlainDaemon == [clock |-> "c2", sha1hex |-> FALSE, failing |-> FALSE]

\* the builder right after construction, before build() is called
InitBuilder ==
  /\ pc = "new"
  /\ buildPromise = FALSE
  /\ hasteMap = createEmptyMap
  /\ changedFiles = [present |-> TRUE, entries |-> EmptyMap]
  /\ removedFiles = EmptyMap
  /\ map = EmptyMap
  /\ mapIsHasteMap = FALSE
  /\ filesToProcess = {}
  /\ handled = {}
  /\ warnings = <<>>
  /\ dispatched = <<>>
  /\ buildReturned = <<>>
  /\ events = <<>>
  /\ thrown = <<>>
  /\ hasteImplModulePath = Null
  /\ workerLog = <<>>
  /\ responses = <<>>
  /\ roots = <<>>
  /\ replied = {}
  /\ watchmanRootsHash = EmptyMap
  /\ queries = <<>>
  /\ client = "none"
  /\ crawlStep = "idle"

Init ==
  /\ prevDisk \in TreesAt({1})
  /\ disk \in TreesAt({1, 2})
  /\ \A p \in DOMAIN disk :
       disk[p].mtime = 1 => (p \in DOMAIN prevDisk /\ disk[p] = prevDisk[p])
  /\ cacheFile \in {<<>>, <<PersistedIndex(prevDisk)>>}
  /\ (cacheFile = <<>>) => (DOMAIN prevDisk = {})
  /\ options = DefaultOptions
  /\ cacheFault = "none"
  /\ daemon = PlainDaemon
  /\ InitBuilder

(***************************************************************************)
(* HasteMap.build: stores the build cycle in _buildPromise.  The actions   *)
(* after it are the statements of that cycle.                              *)
(***************************************************************************)
Build ==
  /\ pc = "new"
  /\ buildPromise' = TRUE
  /\ buildReturned' = Append(buildReturned, <<>>)
  /\ pc' = "buildFileMap"
  /\ UNCHANGED <<environment, rootResolution, watchClient, workerProcess, responses, events, thrown, hasteMap, changedFiles, removedFiles,
                 map, mapIsHasteMap, filesToProcess, handled, warnings, dispatched>>

\* what fs.readFileSync or deserialize can throw on a cache file
CacheFaults == {"EACCES", "corrupt"}

\* HasteMap.read: the decoded cache file, or an empty index when there is no
\* file or reading or decoding it throws
read ==
  IF Len(cacheFile) = 0 \/ cacheFault \in CacheFaults
    THEN createEmptyMap ELSE cacheFile[1]

\* _buildFileMap that calls read whatever resetCache says
loadedIndex_IgnoresResetCache == read

\* _buildFileMap, lines 229-235: the index the crawl starts from
loadedIndex == IF options.resetCache THEN createEmptyMap ELSE read

\* HasteMap._buildFileMap up to the call of _crawl
BuildFileMap ==
  /\ pc = "buildFileMap"
  /\ buildPromise
  /\ hasteMap' = loadedIndex
  /\ pc' = "crawl"
  /\ UNCHANGED <<environment, rootResolution, watchClient, workerProcess, responses, buildReturned, events, thrown, buildPromise, changedFiles, removedFiles,
                 map, mapIsHasteMap, filesToProcess, handled, warnings, dispatched>>

\* HasteMap._crawl: watchmanCrawl on the reply to the query of the root
crawl(data, fresh) ==
  watchmanCrawl(data,
    <<[watchRoot |-> rootDir,
       response |-> WatchmanQueryResponse(RelativeRoot(rootDir) \in DOMAIN data.clocks,
                                          fresh)]>>)

\* build with a condition that always holds: _buildHasteMap is called after
\* every crawl
needsBuildHasteMap_Always(data) == TRUE

\* build, lines 162-166: is _buildHasteMap called
needsBuildHasteMap(data) ==
  \/ ~data.changedFiles.present
  \/ Cardinality(DOMAIN data.changedFiles.entries) > 0
  \/ Cardinality(DOMAIN data.removedFiles) > 0

Crawl ==
  /\ pc = "crawl"
  /\ ~daemon.failing
  /\ \E fresh \in BOOLEAN :
       LET data == crawl(hasteMap, fresh)
       IN  /\ hasteMap' = data.hasteMap
           /\ changedFiles' = data.changedFiles
           /\ removedFiles' = data.removedFiles
           /\ pc' = IF needsBuildHasteMap(data) THEN "buildHasteMap" ELSE "done"
  /\ UNCHANGED <<environment, rootResolution, watchClient, workerProcess, responses, buildReturned, events, thrown, buildPromise, map, mapIsHasteMap,
                 filesToProcess, handled, warnings, dispatched>>

\* HasteMap._buildHasteMap (lines 173-208): the selection and the loop over
\* removedFiles, which yields its keys in `order`
buildHasteMap(data, order) ==
  LET reset == ~data.changedFiles.present \/ Cardinality(DOMAIN data.removedFiles) > 0
      recovered == recoverRemoved(data.hasteMap, data.removedFiles, order, 1)
  IN  [hasteMap |-> recovered,
       map |-> IF reset THEN EmptyMap ELSE recovered.map,
       mapIsHasteMap |-> ~reset,
       filesToProcess |-> IF reset THEN DOMAIN data.hasteMap.files
                          ELSE DOMAIN data.changedFiles.entries]

\* the loop over filesToProcess (lines 200-207) starts no worker
BuildHasteMap ==
  /\ pc = "buildHasteMap"
  /\ \E order \in OrdersOf(DOMAIN removedFiles) :
       LET b == buildHasteMap([hasteMap |-> hasteMap, changedFiles |-> changedFiles,
                               removedFiles |-> removedFiles], order)
       IN  /\ hasteMap' = b.hasteMap
           /\ map' = b.map
           /\ mapIsHasteMap' = b.mapIsHasteMap
           /\ filesToProcess' = b.filesToProcess
           /\ dispatched' = <<[hasteMap |-> b.hasteMap, map |-> b.map,
                               mapIsHasteMap |-> b.mapIsHasteMap,
                               warnings |-> warnings]>>
  /\ pc' = "process"
  /\ UNCHANGED <<environment, rootResolution, watchClient, workerProcess, responses, buildReturned, events, thrown, buildPromise, changedFiles, removedFiles,
                 handled, warnings>>

\* the files of a filesToProcess that the loop does not skip
ProcessableOf(S) == {p \in S : ~EndsWithPackageJson(p)}
Processable == ProcessableOf(filesToProcess)

\* HasteMap._processFile for file p with workerReply called on metadata
\* (lines 289-319).  st = [hasteMap, map, mapIsHasteMap, warnings]
processReply(st, p, metadata) ==
  LET r == workerReplyMap(st.map, metadata)
  IN  [hasteMap |-> [st.hasteMap EXCEPT
                       !.files[p] = workerReplyFile(@, metadata),
                       !.map = IF st.mapIsHasteMap THEN r.map ELSE @],
       map |-> r.map,
       mapIsHasteMap |-> st.mapIsHasteMap,
       warnings |-> st.warnings \o r.warned]

\* the state the callbacks work on
Now == [hasteMap |-> hasteMap, map |-> map, mapIsHasteMap |-> mapIsHasteMap,
        warnings |-> warnings]

\* the worker's JSON.parse of the content of p throws (worker, lines 48-61)
ParseFails(p) == IsPackageJsonFile(p) /\ disk[p].name = Unparsable

\* the worker pool delivers the result of file p
WorkerReply(p) ==
  /\ pc = "process"
  /\ p \in Processable \ handled
  /\ p \in DOMAIN hasteMap.files
  /\ ~IncludesNodeModules(p)
  /\ ~ParseFails(p)
  /\ LET st == processReply(Now, p, WorkerResultFor(p))
     IN  /\ hasteMap' = st.hasteMap
         /\ map' = st.map
         /\ warnings' = st.warnings
  /\ handled' = handled \cup {p}
  /\ UNCHANGED <<environment, rootResolution, watchClient, workerProcess, responses, buildReturned, events, thrown, pc, buildPromise, changedFiles,
                 removedFiles, mapIsHasteMap, filesToProcess, dispatched>>

\* the build is over: no worker was started, or every result was applied
Finish ==
  /\ pc = "process"
  /\ handled = {} \/ handled = Processable
  /\ pc' = "done"
  /\ UNCHANGED <<environment, rootResolution, watchClient, workerProcess, responses, buildReturned, events, thrown, buildPromise, hasteMap, changedFiles,
                 removedFiles, map, mapIsHasteMap, filesToProcess, handled, warnings,
                 dispatched>>

Next ==
  \/ Build
  \/ BuildFileMap
  \/ Crawl
  \/ BuildHasteMap
  \/ \E p \in DOMAIN disk : WorkerReply(p)
  \/ Finish

Spec == Init /\ [][Next]_vars

(***************************************************************************)
(* Package files and files under node_modules.                             *)
(***************************************************************************)
\* _processFile, lines 337-342, for a file under node_modules: the return
\* statement evaluates the undeclared name _getWo, a ReferenceError
ProcessFileThrows(p) ==
  /\ pc = "process"
  /\ p \in Processable \ handled
  /\ p \in DOMAIN hasteMap.files
  /\ IncludesNodeModules(p)
  /\ thrown' = <<"ReferenceError">>
  /\ pc' = "failed"
  /\ UNCHANGED <<environment, rootResolution, watchClient, workerProcess, responses, buildReturned, events, buildPromise, hasteMap,
                 changedFiles, removedFiles, map, mapIsHasteMap, filesToProcess,
                 handled, warnings, dispatched>>

\* the paths of the trees with package files
PackagePaths == {SpecialPaths[i] : i \in 1..Len(SpecialPaths)} \cup {PathSeq[1]}

\* a first build (no cache file) over a tree with package files
InitPackages ==
  /\ prevDisk = EmptyMap
  /\ disk \in TreesOver(PackagePaths, {2})
  /\ cacheFile = <<>>
  /\ options = DefaultOptions
  /\ cacheFault = "none"
  /\ daemon = PlainDaemon
  /\ InitBuilder

NextPackages ==
  \/ Next
  \/ \E p \in DOMAIN disk : ProcessFileThrows(p)

SpecPackages == InitPackages /\ [][NextPackages]_vars

(***************************************************************************)
(* Options, cache faults, daemon failures and repeated calls of build().   *)
(***************************************************************************)
\* how many times build() is called
MaxBuildCalls == 3

\* build() called again: _buildPromise is set, so the body of the if is
\* skipped and the call returns undefined (lines 153-171)
BuildAgain ==
  /\ buildPromise
  /\ Len(buildReturned) < MaxBuildCalls
  /\ buildReturned' = Append(buildReturned, <<>>)
  /\ UNCHANGED <<environment, rootResolution, watchClient, workerProcess, responses, events, thrown, pc, buildPromise, hasteMap,
                 changedFiles, removedFiles, map, mapIsHasteMap, filesToProcess,
                 handled, warnings, dispatched>>

\* the message of watchmanError (watchman.ts, lines 564-569)
WatchmanError == "Watchman error"

\* a command of the crawl is rejected, or the client emits an error: the
\* crawl throws before it merges anything (watchman.ts, lines 431-449), and
\* _crawl warns and throws the error again (index.ts, lines 357-373)
CrawlFails ==
  /\ pc = "crawl"
  /\ daemon.failing
  /\ warnings' = Append(warnings, [crawlFailed |-> WatchmanError])
  /\ thrown' = <<WatchmanError>>
  /\ pc' = "failed"
  /\ UNCHANGED <<environment, rootResolution, watchClient, workerProcess, responses, buildReturned, events, buildPromise, hasteMap,
                 changedFiles, removedFiles, map, mapIsHasteMap, filesToProcess,
                 handled, dispatched>>

\* the trees of the builds with options and faults
EnvPaths == {PathSeq[1], PathSeq[2]}

\* clocks a response may carry: a string, or an SCM object
ResponseClocks == {"c2"} \cup ScmClockSpecs

InitEnv ==
  /\ prevDisk \in TreesOver(EnvPaths, {1})
  /\ disk \in TreesOver(EnvPaths, {1, 2})
  /\ \A p \in DOMAIN disk :
       disk[p].mtime = 1 => (p \in DOMAIN prevDisk /\ disk[p] = prevDisk[p])
  /\ cacheFile \in {<<>>, <<PersistedIndex(prevDisk)>>}
  /\ (cacheFile = <<>>) => (DOMAIN prevDisk = {})
  /\ options \in [resetCache : BOOLEAN, computeSha1 : BOOLEAN, retainAllFiles : {FALSE}]
  /\ cacheFault \in {"none"} \cup CacheFaults
  /\ daemon \in [clock : ResponseClocks, sha1hex : BOOLEAN, failing : BOOLEAN]
  /\ InitBuilder

NextEnv ==
  \/ Next
  \/ BuildAgain
  \/ CrawlFails

SpecEnv == InitEnv /\ [][NextEnv]_vars

(***************************************************************************)
(* Worker failures.                                                        *)
(***************************************************************************)
\* the codes of the errors fs.readFileSync throws in the worker
ReadErrorCodes == {"ENOENT", "EACCES", "EIO"}

\* what a worker task for a file that is no package.json can be rejected
\* with: an fs error with a code, an Error without code, a value that is no
\* Error object
WorkerErrors(p) ==
  {[isError |-> TRUE, code |-> c, message |-> <<c, p>>] : c \in ReadErrorCodes}
    \cup {[isError |-> TRUE, code |-> Null, message |-> <<"failed", p>>],
          [isError |-> FALSE, code |-> Null, message |-> <<"rejected", p>>]}

\* the Error the worker throws in the catch of its package.json branch
\* (worker, lines 59-61): a new Error, so without code, naming the file
CannotParse(p) ==
  [isError |-> TRUE, code |-> Null, message |-> <<"Cannot parse", p, "as JSON">>]

\* the rejections of the task of file p.  For a package.json the read is
\* inside the try, so every failure is the Error of the catch
WorkerFailuresFor(p) ==
  IF IsPackageJsonFile(p) THEN {CannotParse(p)} ELSE WorkerErrors(p)

\* workerEror that drops the file whatever the error is
workerEror_DropsAnyError(hm, relativeFilePath, error) ==
  [hasteMap |-> [hm EXCEPT !.files = MapDelete(@, relativeFilePath)],
   thrown |-> <<>>]

\* workerEror (index.ts, lines 321-335): [hasteMap, thrown]
workerEror(hm, relativeFilePath, error) ==
  LET e == IF ~error.isError
             THEN [isError |-> TRUE, code |-> Null, message |-> error.message]
             ELSE error
  IN  IF e.code \notin {"ENONET", "EACCES"}
        THEN [hasteMap |-> hm, thrown |-> <<e>>]
        ELSE [hasteMap |-> [hm EXCEPT !.files = MapDelete(@, relativeFilePath)],
              thrown |-> <<>>]

\* the worker pool rejects the task of file p
WorkerError(p) ==
  /\ pc = "process"
  /\ p \in Processable \ handled
  /\ p \in DOMAIN hasteMap.files
  /\ ~IncludesNodeModules(p)
  /\ \E error \in WorkerFailuresFor(p) :
       LET r == workerEror(hasteMap, p, error)
       IN  /\ hasteMap' = r.hasteMap
           /\ thrown' = r.thrown
           /\ pc' = IF r.thrown = <<>> THEN pc ELSE "failed"
  /\ handled' = handled \cup {p}
  /\ UNCHANGED <<environment, rootResolution, watchClient, workerProcess, responses, buildReturned, events, buildPromise, changedFiles,
                 removedFiles, map, mapIsHasteMap, filesToProcess, warnings,
                 dispatched>>

\* package files may hold content that does not parse
PackageTrees ==
  UNION {[S -> {DiskFile(n, 2) : n \in AllNames \cup {Unparsable}}] :
           S \in SUBSET PackagePaths}

\* a first build over a tree whose files may fail in the worker
InitErrors ==
  /\ prevDisk = EmptyMap
  /\ disk \in PackageTrees
  /\ \A p \in DOMAIN disk : disk[p].name = Unparsable => IsPackageJsonFile(p)
  /\ cacheFile = <<>>
  /\ options = DefaultOptions
  /\ cacheFault = "none"
  /\ daemon = PlainDaemon
  /\ InitBuilder

NextErrors ==
  \/ Next
  \/ \E p \in DOMAIN disk : WorkerError(p)

SpecErrors == InitErrors /\ [][NextErrors]_vars

(***************************************************************************)
(* The file worker (src/unnamed/part_000) as a process that runs tasks.    *)
(***************************************************************************)
\* how many tasks a worker process is given
MaxTasks == 3

\* the haste implementations a task can name
HasteImplModulePaths == {"implA", "implB"}

\* the error of line 25
HasteImplChanged == "jest-haste-map: hasteImplModulePath changed"

\* the tasks for the files of the tree: data.filePath stands as the relative
\* path, data.hasteImplModulePath is Null when the task carries none
WorkerMessages ==
  [filePath : DOMAIN disk, hasteImplModulePath : {Null} \cup HasteImplModulePaths]

\* hasteImpl.getHasteName(filePath) is the name the tree gives the file
getHasteName(filePath) ==
  IF disk[filePath].name = NoName THEN Null ELSE disk[filePath].name

\* worker (lines 19-83) run by a process whose module holds `loaded`:
\* the module state it leaves, what it throws, and the id it derives
worker(loaded, data) ==
  LET requested == data.hasteImplModulePath
      changes == requested # Null /\ requested # loaded
      hasteImpl == IF changes THEN requested ELSE loaded
  IN  IF changes /\ loaded # Null
        THEN [hasteImplModulePath |-> loaded, thrown |-> <<HasteImplChanged>>,
              id |-> Null]
        ELSE [hasteImplModulePath |-> hasteImpl,
              thrown |-> <<>>,
              id |-> IF IsPackageJsonFile(data.filePath) \/ hasteImpl = Null
                       THEN Null ELSE getHasteName(data.filePath)]

\* a worker process runs one more task
WorkerTask(data) ==
  /\ Len(workerLog) < MaxTasks
  /\ LET r == worker(hasteImplModulePath, data)
     IN  /\ hasteImplModulePath' = r.hasteImplModulePath
         /\ workerLog' = Append(workerLog,
                                [data |-> data, thrown |-> r.thrown, id |-> r.id])
  /\ UNCHANGED <<environment, rootResolution, watchClient, responses, pc, buildPromise, hasteMap, changedFiles,
                 removedFiles, map, mapIsHasteMap, filesToProcess, handled, warnings,
                 dispatched, buildReturned, events, thrown>>

\* a fresh worker process and a tree of ordinary files
InitWorker ==
  /\ prevDisk = EmptyMap
  /\ disk \in TreesOver(Paths, {2})
  /\ cacheFile = <<>>
  /\ options = DefaultOptions
  /\ cacheFault = "none"
  /\ daemon = PlainDaemon
  /\ InitBuilder

NextWorker == \E data \in WorkerMessages : WorkerTask(data)

SpecWorker == InitWorker /\ [][NextWorker]_vars

(***************************************************************************)
(* Crawls of two watch roots, with digests in the index and in the         *)
(* responses.                                                              *)
(***************************************************************************)
\* the relative paths of the files of the watch roots
RootPaths == {RootFiles[i].relative : i \in 1..Len(RootFiles)}

\* a content.sha1hex that is no string of 40 characters
InvalidSha1 == "sha1?"

\* the index an earlier build has left for the tree of the two watch roots:
\* a clock per root and, when that build computed digests, the digests
CrawledIndex(tree, withSha1) ==
  [PersistedIndex(tree) EXCEPT
     !.clocks = MapSet(MapSet(EmptyMap, RelativeRoot(WatchRoots[1]), "c1"),
                       RelativeRoot(WatchRoots[2]), "c1"),
     !.files = [p \in DOMAIN tree |->
                  [@[p] EXCEPT !.sha1 = IF withSha1 THEN DigestOf(tree[p]) ELSE Null]]]

\* the files of RootFiles the reply to the query of a watch root lists: those
\* that exist (no since clock, or a fresh instance), or those that changed
\* since the clock and the files in `gone`, created and deleted since
RootListing(watchRoot, hasSince, fresh, gone) ==
  SelectSeq(RootFiles,
            LAMBDA e : /\ e.watchRoot = watchRoot
                       /\ \/ e.relative \in ReportedPaths(hasSince, fresh)
                          \/ hasSince /\ ~fresh /\ e.relative \in gone)

\* the reply to the query of a watch root; garbled: the daemon sends no
\* usable digest
RootResponse(watchRoot, hasSince, fresh, gone, garbled) ==
  LET listing == RootListing(watchRoot, hasSince, fresh, gone)
  IN  [is_fresh_instance |-> fresh,
       clock |-> daemon.clock,
       files |-> [i \in 1..Len(listing) |->
                    [ResponseFile(listing[i].relative, disk) EXCEPT
                       !.name = listing[i].name,
                       !.sha1hex = IF garbled /\ @ # Null THEN InvalidSha1 ELSE @]]]

\* HasteMap._crawl with both watch roots in options.roots: watchmanCrawl on
\* the replies to the two queries.  The reply to a query whose since is an
\* SCM object may carry is_fresh_instance and still list only the changes
CrawlRoots ==
  /\ pc = "crawl"
  /\ ~daemon.failing
  /\ \E fresh \in [1..Len(WatchRoots) -> BOOLEAN],
        gone \in SUBSET (RootPaths \ ((DOMAIN disk) \cup (DOMAIN prevDisk))),
        garbled \in BOOLEAN :
       LET results ==
             [i \in 1..Len(WatchRoots) |->
                [watchRoot |-> WatchRoots[i],
                 response |->
                   [RootResponse(WatchRoots[i],
                                 RelativeRoot(WatchRoots[i]) \in DOMAIN hasteMap.clocks,
                                 fresh[i] /\ ~isSourceControlQuery(hasteMap.clocks,
                                                                   WatchRoots[i]),
                                 gone, garbled)
                      EXCEPT !.is_fresh_instance = fresh[i]]]]
           data == watchmanCrawl(hasteMap, results)
       IN  /\ responses' = results
           /\ hasteMap' = data.hasteMap
           /\ changedFiles' = data.changedFiles
           /\ removedFiles' = data.removedFiles
           /\ pc' = IF needsBuildHasteMap(data) THEN "buildHasteMap" ELSE "done"
  /\ UNCHANGED <<environment, rootResolution, watchClient, workerProcess, buildReturned, events, thrown,
                 buildPromise, map, mapIsHasteMap, filesToProcess, handled, warnings,
                 dispatched>>

\* trees below the two watch roots, an index with or without digests
InitRoots ==
  /\ prevDisk \in TreesOver(RootPaths, {1})
  /\ disk \in TreesOver(RootPaths, {1, 2})
  /\ \A p \in DOMAIN disk :
       disk[p].mtime = 1 => (p \in DOMAIN prevDisk /\ disk[p] = prevDisk[p])
  /\ cacheFile \in {<<>>} \cup {<<CrawledIndex(prevDisk, withSha1)>> : withSha1 \in BOOLEAN}
  /\ (cacheFile = <<>>) => (DOMAIN prevDisk = {})
  /\ options = [DefaultOptions EXCEPT !.computeSha1 = TRUE]
  /\ cacheFault = "none"
  /\ daemon = [PlainDaemon EXCEPT !.sha1hex = TRUE]
  /\ InitBuilder

NextRoots ==
  \/ Build
  \/ BuildFileMap
  \/ CrawlRoots
  \/ BuildHasteMap
  \/ \E p \in DOMAIN disk : WorkerReply(p)
  \/ Finish

SpecRoots == InitRoots /\ [][NextRoots]_vars

(***************************************************************************)
(* getWathmanRoots (watchman.ts, lines 300-333): a watch-project command   *)
(* per root, all sent at once; the answers arrive in any order.            *)
(***************************************************************************)
\* how many roots the crawl is given
MaxRoots == 3

\* what watch-project can answer: the watch root and the path of the root
\* below it, "" when the root is the watch root
WatchProjectResponses == [watch : {"/r", "/w"}, relative_path : {"", "x", "y"}]

\* the answers for lists of one to MaxRoots roots
RootResolutions ==
  UNION {[1..n -> WatchProjectResponses] : n \in 1..MaxRoots}

\* the continuation with the inverted test (`existing.length === 0`): a
\* directory is recorded only below a watch root seen as a whole before
watchProject_Inverted(hash, response) ==
  LET seen == response.watch \in DOMAIN hash
      existing == IF seen THEN hash[response.watch] ELSE <<>>
  IN  IF ~seen \/ Len(existing) = 0
        THEN IF response.relative_path # ""
               THEN MapSet(hash, response.watch, Append(existing, response.relative_path))
               ELSE MapSet(hash, response.watch, <<>>)
        ELSE hash

\* lines 313-329: the continuation after one answer
watchProject(hash, response) ==
  LET seen == response.watch \in DOMAIN hash
      existing == IF seen THEN hash[response.watch] ELSE <<>>
      areWeWatchingRootFirstTime == ~seen \/ Len(existing) > 0
  IN  IF areWeWatchingRootFirstTime
        THEN IF response.relative_path # ""
               THEN MapSet(hash, response.watch, Append(existing, response.relative_path))
               ELSE MapSet(hash, response.watch, <<>>)
        ELSE hash

\* getWathmanRoots when the answers arrive in the order `order`
RECURSIVE getWathmanRoots(_, _, _, _)
getWathmanRoots(hash, rs, order, i) ==
  IF i > Len(order) THEN hash
  ELSE getWathmanRoots(watchProject(hash, rs[order[i]]), rs, order, i + 1)

\* getWathmanRoots is called: the commands are sent
SendWatchProjects ==
  /\ roots = <<>>
  /\ roots' \in RootResolutions
  /\ UNCHANGED <<environment, watchClient, workerProcess, responses, replied, watchmanRootsHash,
                 pc, buildPromise, hasteMap, changedFiles, removedFiles, map,
                 mapIsHasteMap, filesToProcess, handled, warnings, dispatched,
                 buildReturned, events, thrown>>

\* the answer for root i arrives
WatchProjectReply(i) ==
  /\ i \in (DOMAIN roots) \ replied
  /\ watchmanRootsHash' = watchProject(watchmanRootsHash, roots[i])
  /\ replied' = replied \cup {i}
  /\ UNCHANGED <<environment, watchClient, workerProcess, responses, roots,
                 pc, buildPromise, hasteMap, changedFiles, removedFiles, map,
                 mapIsHasteMap, filesToProcess, handled, warnings, dispatched,
                 buildReturned, events, thrown>>

InitWatchRoots ==
  /\ prevDisk = EmptyMap
  /\ disk = EmptyMap
  /\ cacheFile = <<>>
  /\ options = DefaultOptions
  /\ cacheFault = "none"
  /\ daemon = PlainDaemon
  /\ InitBuilder

NextWatchRoots ==
  \/ SendWatchProjects
  \/ \E i \in 1..MaxRoots : WatchProjectReply(i)

SpecWatchRoots == InitWatchRoots /\ [][NextWatchRoots]_vars

(***************************************************************************)
(* Crawls whose index carries clocks written by automation outside the     *)
(* builder: a local clock string or an SCM object per watch root.          *)
(***************************************************************************)
\* the clocks an index can hold for a watch root
StoredClocks == {"c1"} \cup ScmClockSpecs

\* the persisted index of a tree, with the given clock per watch root
ScmIndex(tree, clockOf) ==
  [PersistedIndex(tree) EXCEPT
     !.clocks = [k \in {RelativeRoot(WatchRoots[i]) : i \in 1..Len(WatchRoots)}
                   |-> clockOf[k]]]

InitScm ==
  /\ prevDisk \in TreesOver(RootPaths, {1})
  /\ disk \in TreesOver(RootPaths, {1, 2})
  /\ \A p \in DOMAIN prevDisk : prevDisk[p].name = NoName
  /\ \A p \in DOMAIN disk : disk[p].name = NoName
  /\ \A p \in DOMAIN disk :
       disk[p].mtime = 1 => (p \in DOMAIN prevDisk /\ disk[p] = prevDisk[p])
  /\ cacheFile \in
       {<<ScmIndex(prevDisk, clockOf)>> :
          clockOf \in [{RelativeRoot(WatchRoots[i]) : i \in 1..Len(WatchRoots)}
                         -> StoredClocks]}
  /\ options = DefaultOptions
  /\ cacheFault = "none"
  /\ daemon = PlainDaemon
  /\ InitBuilder

SpecScm == InitScm /\ [][NextRoots]_vars

(***************************************************************************)
(* Consecutive calls of watchmanCrawl on the index the builder loaded:     *)
(* each call works on the data the call before it returned.                *)
(***************************************************************************)
\* how many times the crawler is called
MaxCrawls == 2

\* since looked up under the watch root itself, not under its path relative
\* to rootDir
since_ByWatchRoot(clocks, watchRoot) ==
  IF watchRoot \in DOMAIN clocks THEN <<clocks[watchRoot]>> ELSE <<>>

\* line 375: clocks.get(path.relative(rootDir, root)); <<>> for undefined
since(clocks, watchRoot) ==
  IF RelativeRoot(watchRoot) \in DOMAIN clocks
    THEN <<clocks[RelativeRoot(watchRoot)]>> ELSE <<>>

\* lines 384-389: the query of a watch root; glob tells whether the query
\* has the field glob
query(clocks, watchRoot) ==
  IF since(clocks, watchRoot) = <<>>
    THEN [since |-> <<>>, glob |-> TRUE, glob_includedotfiles |-> TRUE]
    ELSE [since |-> since(clocks, watchRoot), glob |-> FALSE,
          glob_includedotfiles |-> FALSE]

\* the reply of the daemon to a query: all files for a glob query or on a
\* fresh instance, the changes since the tree of the index for a clock the
\* index was persisted with, nothing for the clock the daemon has just
\* answered with
QueryResponse(watchRoot, q, fresh) ==
  LET scm == q.since # <<>> /\ q.since[1] \in ScmClockSpecs
      full == q.since = <<>> \/ (fresh /\ ~scm)
      listing == SelectSeq(RootFiles,
                   LAMBDA e : /\ e.watchRoot = watchRoot
                              /\ \/ full /\ e.relative \in DOMAIN disk
                                 \/ /\ ~full
                                    /\ q.since[1] \in {"c1"} \cup ScmClockSpecs
                                    /\ e.relative \in ReportedPaths(TRUE, FALSE))
  IN  [is_fresh_instance |-> fresh,
       clock |-> daemon.clock,
       files |-> [i \in 1..Len(listing) |-> ResponseFile(listing[i].relative, disk)]]

\* one call of watchmanCrawl on the data of the call before
WatchmanCrawlCall ==
  /\ pc = "crawl"
  /\ Len(queries) < MaxCrawls
  /\ \E fresh \in [1..Len(WatchRoots) -> BOOLEAN] :
       LET sent == [i \in 1..Len(WatchRoots) |->
                      [watchRoot |-> WatchRoots[i],
                       query |-> query(hasteMap.clocks, WatchRoots[i])]]
           results == [i \in 1..Len(WatchRoots) |->
                         [watchRoot |-> WatchRoots[i],
                          response |-> [QueryResponse(WatchRoots[i], sent[i].query,
                                                      fresh[i])
                                          EXCEPT !.files =
                                            [k \in DOMAIN @ |->
                                               [@[k] EXCEPT !.name =
                                                  RootFiles[CHOOSE j \in 1..Len(RootFiles) :
                                                    RootFiles[j].relative = @].name]]]]]
           data == watchmanCrawl(hasteMap, results)
       IN  /\ queries' = Append(queries, [sent |-> sent, results |-> results,
                                          clocks |-> data.hasteMap.clocks])
           /\ responses' = results
           /\ hasteMap' = data.hasteMap
           /\ changedFiles' = data.changedFiles
           /\ removedFiles' = data.removedFiles
  /\ UNCHANGED <<environment, rootResolution, workerProcess, client, crawlStep, pc,
                 buildReturned, events, thrown, buildPromise, map, mapIsHasteMap,
                 filesToProcess, handled, warnings, dispatched>>

InitClocks ==
  /\ prevDisk \in TreesOver(RootPaths, {1})
  /\ disk \in TreesOver(RootPaths, {1, 2})
  /\ \A p \in DOMAIN prevDisk : prevDisk[p].name = NoName
  /\ \A p \in DOMAIN disk : disk[p].name = NoName
  /\ \A p \in DOMAIN disk :
       disk[p].mtime = 1 => (p \in DOMAIN prevDisk /\ disk[p] = prevDisk[p])
  /\ cacheFile \in
       {<<>>} \cup
       {<<ScmIndex(prevDisk, clockOf)>> :
          clockOf \in [{RelativeRoot(WatchRoots[i]) : i \in 1..Len(WatchRoots)}
                         -> StoredClocks]}
  /\ (cacheFile = <<>>) => (DOMAIN prevDisk = {})
  /\ options = DefaultOptions
  /\ cacheFault = "none"
  /\ daemon \in [clock : ResponseClocks, sha1hex : {FALSE}, failing : {FALSE}]
  /\ InitBuilder

NextClocks ==
  \/ Build
  \/ BuildFileMap
  \/ WatchmanCrawlCall

SpecClocks == InitClocks /\ [][NextClocks]_vars

(***************************************************************************)
(* The commands of one call of watchmanCrawl on its watchman.Client, each  *)
(* of which the daemon may reject (watchman.ts, lines 233-295 and 431-449) *)
(***************************************************************************)
\* what client.capabilityCheck rejects with (lines 547-561: not wrapped)
CapabilityError == "capabilityCheck error"

\* the commands before the query, in order
CommandAfter(step) ==
  IF step = "capabilityCheck"
    THEN IF options.computeSha1 THEN "list-capabilities" ELSE "watch-project"
  ELSE IF step = "list-capabilities" THEN "watch-project"
  ELSE "query"

\* the commands inside the try whose finally calls client.end() (431-445)
InsideTry == {"watch-project", "query"}

\* line 234: new watchman.Client()
ClientStart ==
  /\ pc = "crawl"
  /\ crawlStep = "idle"
  /\ client' = "open"
  /\ crawlStep' = "capabilityCheck"
  /\ UNCHANGED <<environment, rootResolution, workerProcess, responses, queries, pc,
                 buildReturned, events, thrown, buildPromise, hasteMap, changedFiles,
                 removedFiles, map, mapIsHasteMap, filesToProcess, handled, warnings,
                 dispatched>>

\* _crawl's retry after the crawl has thrown `error` (index.ts 357-373)
crawlThrows(error) ==
  /\ warnings' = Append(warnings, [crawlFailed |-> error])
  /\ thrown' = <<error>>
  /\ pc' = "failed"
  /\ crawlStep' = "failed"

\* capabilityCheck, list-capabilities or watch-project is answered or
\* rejected
ClientCommand(step) ==
  /\ pc = "crawl"
  /\ crawlStep = step
  /\ step \in {"capabilityCheck", "list-capabilities", "watch-project"}
  /\ \E ok \in BOOLEAN :
       IF ok
         THEN /\ crawlStep' = CommandAfter(step)
              /\ UNCHANGED <<client, warnings, thrown, pc>>
         ELSE /\ crawlThrows(IF step = "capabilityCheck" THEN CapabilityError
                             ELSE WatchmanError)
              /\ client' = IF step \in InsideTry THEN "ended" ELSE client
  /\ UNCHANGED <<environment, rootResolution, workerProcess, responses, queries,
                 buildReturned, events, buildPromise, hasteMap, changedFiles,
                 removedFiles, map, mapIsHasteMap, filesToProcess, handled, dispatched>>

\* the query is answered or rejected, the client may have emitted an error
\* (line 268); client.end() in the finally, then the merge (447-537)
ClientQuery ==
  /\ pc = "crawl"
  /\ crawlStep = "query"
  /\ client' = "ended"
  /\ \E ok \in BOOLEAN, clientError \in BOOLEAN, fresh \in BOOLEAN :
       IF ok /\ ~clientError
         THEN LET data == crawl(hasteMap, fresh)
              IN  /\ hasteMap' = data.hasteMap
                  /\ changedFiles' = data.changedFiles
                  /\ removedFiles' = data.removedFiles
                  /\ pc' = IF needsBuildHasteMap(data) THEN "buildHasteMap" ELSE "done"
                  /\ crawlStep' = "returned"
                  /\ UNCHANGED <<warnings, thrown>>
         ELSE /\ crawlThrows(WatchmanError)
              /\ UNCHANGED <<hasteMap, changedFiles, removedFiles>>
  /\ UNCHANGED <<environment, rootResolution, workerProcess, responses, queries,
                 buildReturned, events, buildPromise, map, mapIsHasteMap,
                 filesToProcess, handled, dispatched>>

InitClient ==
  /\ prevDisk \in TreesOver(EnvPaths, {1})
  /\ disk \in TreesOver(EnvPaths, {1, 2})
  /\ \A p \in DOMAIN disk :
       disk[p].mtime = 1 => (p \in DOMAIN prevDisk /\ disk[p] = prevDisk[p])
  /\ cacheFile \in {<<>>, <<PersistedIndex(prevDisk)>>}
  /\ (cacheFile = <<>>) => (DOMAIN prevDisk = {})
  /\ options \in [resetCache : {FALSE}, computeSha1 : BOOLEAN, retainAllFiles : {FALSE}]
  /\ cacheFault = "none"
  /\ daemon \in [clock : {"c2"}, sha1hex : BOOLEAN, failing : {FALSE}]
  /\ InitBuilder

NextClient ==
  \/ Build
  \/ BuildFileMap
  \/ ClientStart
  \/ \E step \in {"capabilityCheck", "list-capabilities", "watch-project"} :
       ClientCommand(step)
  \/ ClientQuery
  \/ BuildHasteMap
  \/ \E p \in DOMAIN disk : WorkerReply(p)
  \/ Finish

SpecClient == InitClient /\ [][NextClient]_vars

(***************************************************************************)
(* Definitions the properties share.                                       *)
(***************************************************************************)
\* a set of paths in listing order
SeqOf(S) == SelectSeq(ListingOrder, LAMBDA p : p \in S)

\* the results of the files of `order` applied one after the other
RECURSIVE applyReplies(_, _, _)
applyReplies(st, order, i) ==
  IF i > Len(order) THEN st
  ELSE applyReplies(processReply(st, order[i], WorkerResultFor(order[i])), order, i + 1)

\* the four parts of an index that the properties compare
IndexOf(hm) ==
  [files |-> hm.files, map |-> hm.map, duplicates |-> hm.duplicates, mocks |-> hm.mocks]

\* the build cycle run from an empty index over the tree as it is now
BuildFromEmpty(fresh, withWorkers) ==
  LET data == crawl(createEmptyMap, fresh)
      b == buildHasteMap(data, <<>>)
      st == [hasteMap |-> b.hasteMap, map |-> b.map,
             mapIsHasteMap |-> b.mapIsHasteMap, warnings |-> <<>>]
  IN  IF ~needsBuildHasteMap(data) THEN data.hasteMap
      ELSE IF withWorkers
        THEN applyReplies(st, SeqOf(ProcessableOf(b.filesToProcess)), 1).hasteMap
      ELSE st.hasteMap

\* the build has returned
BuildDone == pc = "done"

\* the tracked files whose content declares haste name id
Claiming(id) == {p \in DOMAIN hasteMap.files : p \in DOMAIN disk /\ disk[p].name = id}

\* map resolves id on the generic platform
Resolves(m, id) == id \in DOMAIN m /\ GENERIC_PLATFORM \in DOMAIN m[id]

\* duplicates lists path p under id on the generic platform
InDuplicates(dups, id, p) ==
  /\ id \in DOMAIN dups
  /\ GENERIC_PLATFORM \in DOMAIN dups[id]
  /\ p \in DOMAIN dups[id][GENERIC_PLATFORM]

(***************************************************************************)
(* C1: a build that starts from a prior index and crawls the delta of the  *)
(* edits ends with the same files, map, duplicates and mocks as a build    *)
(* that starts from an empty index over the full tree after the edits.     *)
(***************************************************************************)
C1_IncrementalEquivalence ==
  (BuildDone /\ Len(cacheFile) = 1) =>
    \E fresh \in BOOLEAN, withWorkers \in BOOLEAN :
      IndexOf(hasteMap) = IndexOf(BuildFromEmpty(fresh, withWorkers))

(***************************************************************************)
(* C2: after every build, a haste id that two or more tracked files claim  *)
(* has no entry in map and is recorded in duplicates.                      *)
(***************************************************************************)
C2_AmbiguousIdInDuplicates ==
  BuildDone =>
    \A id \in HasteNames :
      Cardinality(Claiming(id)) >= 2 =>
        /\ ~Resolves(hasteMap.map, id)
        /\ \A p \in Claiming(id) : InDuplicates(hasteMap.duplicates, id, p)

(***************************************************************************)
(* C3 (I1): after every build, every (id, platform) entry of map names a   *)
(* path that is a key of files, and files[that path].hasteId is id.        *)
(***************************************************************************)
C3_MapEntriesTracked ==
  BuildDone =>
    \A id \in DOMAIN hasteMap.map :
      \A platform \in DOMAIN hasteMap.map[id] :
        /\ hasteMap.map[id][platform].path \in DOMAIN hasteMap.files
        /\ hasteMap.files[hasteMap.map[id][platform].path].id = id

(***************************************************************************)
(* C4 (P1): after every build, every tracked file has an empty hasteId,    *)
(* or map[hasteId][g] points at it, or it is in duplicates[hasteId][g].    *)
(***************************************************************************)
C4_Consistency ==
  BuildDone =>
    \A p \in DOMAIN hasteMap.files :
      LET id == hasteMap.files[p].id
      IN  \/ id = ""
          \/ (Resolves(hasteMap.map, id) /\ hasteMap.map[id][GENERIC_PLATFORM].path = p)
          \/ InDuplicates(hasteMap.duplicates, id, p)

(***************************************************************************)
(* C5 (P2): after reconciliation, every id of duplicates has a platform,   *)
(* and every duplicates[id][platform] holds at least two paths.            *)
(***************************************************************************)
C5_NoStrandedDuplicates ==
  pc \in {"process", "done"} =>
    \A id \in DOMAIN hasteMap.duplicates :
      /\ DOMAIN hasteMap.duplicates[id] # {}
      /\ \A platform \in DOMAIN hasteMap.duplicates[id] :
           Cardinality(DOMAIN hasteMap.duplicates[id][platform]) >= 2

\* a removed file was one of three or more contenders, and the id stays in
\* duplicates after the build
C5_Witness ==
  /\ BuildDone
  /\ \E id \in DOMAIN hasteMap.duplicates :
       \E p \in DOMAIN removedFiles :
         /\ removedFiles[p].id = id
         /\ InDuplicates(read.duplicates, id, p)
         /\ ~InDuplicates(hasteMap.duplicates, id, p)

(***************************************************************************)
(* C6: whenever, after a build, exactly one tracked file still claims an   *)
(* id, map[id][g] points at that file and the id is not in duplicates.     *)
(***************************************************************************)
C6_SoleSurvivorInMap ==
  BuildDone =>
    \A id \in HasteNames :
      \A survivor \in Paths :
        Claiming(id) = {survivor} =>
          /\ Resolves(hasteMap.map, id)
          /\ hasteMap.map[id][GENERIC_PLATFORM].path = survivor
          /\ id \notin DOMAIN hasteMap.duplicates

(***************************************************************************)
(* C7 (P4): whatever the order in which the workers' results were applied, *)
(* files, map and duplicates are those that applying the same results in   *)
(* listing order gives.                                                    *)
(***************************************************************************)
ViewOf(st) ==
  [files |-> st.hasteMap.files, map |-> st.hasteMap.map,
   duplicates |-> st.hasteMap.duplicates, processed |-> st.map]

C7_OrderIndependent ==
  Len(dispatched) = 1 =>
    ViewOf(Now) = ViewOf(applyReplies(dispatched[1], SeqOf(handled), 1))

\* the results of three files that claim the same id were applied to the
\* index's own map
C7_Witness ==
  /\ BuildDone
  /\ mapIsHasteMap
  /\ \E id \in HasteNames :
       Cardinality({p \in handled : disk[p].name = id}) >= 3

(***************************************************************************)
(* C8: when a worker result assigns id N to a file while map[N][g] points  *)
(* at another path, the reconciler warns, naming both paths, removes N     *)
(* from map and records both paths with their kinds in duplicates[N][g].   *)
(***************************************************************************)
C8_CollisionOutcome ==
  [][\A p \in Paths :
       LET N == WorkerResultFor(p).id
       IN  ( /\ pc = "process"
             /\ p \notin handled
             /\ handled' = handled \cup {p}
             /\ Resolves(map, N)
             /\ map[N][GENERIC_PLATFORM].path # p )
           =>
           ( /\ Len(warnings') = Len(warnings) + 1
             /\ warnings'[Len(warnings')] =
                  [id |-> N, existing |-> map[N][GENERIC_PLATFORM].path, module |-> p]
             /\ N \notin DOMAIN map'
             /\ InDuplicates(hasteMap'.duplicates, N, p)
             /\ InDuplicates(hasteMap'.duplicates, N, map[N][GENERIC_PLATFORM].path)
             /\ hasteMap'.duplicates[N][GENERIC_PLATFORM][p] = H_MODULE
             /\ hasteMap'.duplicates[N][GENERIC_PLATFORM][map[N][GENERIC_PLATFORM].path]
                  = map[N][GENERIC_PLATFORM].type )
    ]_vars

(***************************************************************************)
(* C9 (P7): with duplicates[id][g] holding exactly two paths A and B and   *)
(* no map entry for id, removing A leaves map[id][g] = (B, kind of B) and  *)
(* id absent from duplicates; and a build after deleting one of two        *)
(* colliding files ends with the survivor in map, the id out of            *)
(* duplicates and the deleted file out of files.                           *)
(***************************************************************************)
\* the cached index lists exactly A and B under id, and the only edit since
\* is the deletion of A
DeletedOneOfTwo(id, A, B) ==
  /\ Len(cacheFile) = 1
  /\ A # B
  /\ id \in DOMAIN read.duplicates
  /\ DOMAIN read.duplicates[id][GENERIC_PLATFORM] = {A, B}
  /\ DOMAIN disk = (DOMAIN prevDisk) \ {A}
  /\ \A p \in DOMAIN disk : disk[p] = prevDisk[p]

C9_RecoverDuplicatesLaw ==
  /\ \A id \in DOMAIN hasteMap.duplicates :
       ( /\ GENERIC_PLATFORM \in DOMAIN hasteMap.duplicates[id]
         /\ Cardinality(DOMAIN hasteMap.duplicates[id][GENERIC_PLATFORM]) = 2
         /\ id \notin DOMAIN hasteMap.map )
       => \A A \in DOMAIN hasteMap.duplicates[id][GENERIC_PLATFORM] :
            \A B \in (DOMAIN hasteMap.duplicates[id][GENERIC_PLATFORM]) \ {A} :
              LET after == recoverDuplicates(hasteMap, A, id)
              IN  /\ Resolves(after.map, id)
                  /\ after.map[id][GENERIC_PLATFORM] =
                       ModuleMetaData(B, hasteMap.duplicates[id][GENERIC_PLATFORM][B])
                  /\ id \notin DOMAIN after.duplicates
  /\ BuildDone =>
       \A id \in HasteNames : \A A \in Paths : \A B \in Paths :
         DeletedOneOfTwo(id, A, B) =>
           /\ Resolves(hasteMap.map, id)
           /\ hasteMap.map[id][GENERIC_PLATFORM] =
                ModuleMetaData(B, read.duplicates[id][GENERIC_PLATFORM][B])
           /\ id \notin DOMAIN hasteMap.duplicates
           /\ A \notin DOMAIN hasteMap.files

\* a build has ended after one of two colliding files was deleted
C9_Witness ==
  /\ BuildDone
  /\ \E id \in HasteNames : \E A \in Paths : \E B \in Paths : DeletedOneOfTwo(id, A, B)

(***************************************************************************)
(* C10: after the build, a tracked file that alone declares haste name N   *)
(* has hasteId N, visited true and map[N][g] = (its path, Module); a file  *)
(* that declares none has visited true and no map entry.                   *)
(***************************************************************************)
C10_ModuleIndexed ==
  BuildDone =>
    \A p \in DOMAIN hasteMap.files :
      LET N == disk[p].name
      IN  /\ hasteMap.files[p].visited = 1
          /\ (N # NoName /\ Claiming(N) = {p}) =>
               /\ hasteMap.files[p].id = N
               /\ Resolves(hasteMap.map, N)
               /\ hasteMap.map[N][GENERIC_PLATFORM] = ModuleMetaData(p, H_MODULE)
          /\ (N = NoName) =>
               \A id \in DOMAIN hasteMap.map :
                 \A platform \in DOMAIN hasteMap.map[id] :
                   hasteMap.map[id][platform].path # p

(***************************************************************************)
(* C11: after the build, a tracked package.json whose content has the name *)
(* N (and which alone claims N) has hasteId N, and map[N][g] is (its path  *)
(* relative to rootDir, Package).                                          *)
(***************************************************************************)
C11_PackageIndexed ==
  BuildDone =>
    \A p \in DOMAIN hasteMap.files :
      LET N == disk[p].name
      IN  (IsPackageJsonFile(p) /\ N # NoName /\ Claiming(N) = {p}) =>
            /\ hasteMap.files[p].id = N
            /\ Resolves(hasteMap.map, N)
            /\ hasteMap.map[N][GENERIC_PLATFORM] = ModuleMetaData(p, H_PACKAGE)

(***************************************************************************)
(* C12: after the build, a file under node_modules is still in files, no   *)
(* worker result was applied for it, its visited is true and its hasteId   *)
(* empty, and map does not point at it.                                    *)
(***************************************************************************)
C12_NodeModulesShortcut ==
  BuildDone =>
    \A p \in DOMAIN disk :
      IncludesNodeModules(p) =>
        /\ p \in DOMAIN hasteMap.files
        /\ p \notin handled
        /\ hasteMap.files[p].visited = 1
        /\ hasteMap.files[p].id = ""
        /\ \A id \in DOMAIN hasteMap.map :
             \A platform \in DOMAIN hasteMap.map[id] :
               hasteMap.map[id][platform].path # p

(***************************************************************************)
(* C13: when the daemon reports a fresh instance, every file of the        *)
(* previous index that the response does not list as existing is in        *)
(* removedFiles with its previous metadata and is not in files; and after  *)
(* reconciliation it is no longer listed in duplicates under its previous  *)
(* haste id, the last contender left being promoted into map.              *)
(***************************************************************************)
\* the crawl has run on a fresh instance
CrawledFresh == pc \in {"buildHasteMap", "process", "done"} /\ ~changedFiles.present

\* the files of the previous index that the response did not list
Omitted == (DOMAIN loadedIndex.files) \ (DOMAIN disk)

C13_FreshInstanceRemovals ==
  CrawledFresh =>
    \A p \in Omitted :
      /\ p \in DOMAIN removedFiles
      /\ removedFiles[p] = loadedIndex.files[p]
      /\ p \notin DOMAIN hasteMap.files
      /\ pc \in {"process", "done"} =>
           LET id == loadedIndex.files[p].id
           IN  InDuplicates(loadedIndex.duplicates, id, p) =>
                 /\ ~InDuplicates(hasteMap.duplicates, id, p)
                 /\ \A q \in Paths :
                      (DOMAIN loadedIndex.duplicates[id][GENERIC_PLATFORM]) \ Omitted = {q}
                        => /\ Resolves(hasteMap.map, id)
                           /\ hasteMap.map[id][GENERIC_PLATFORM].path = q

\* a fresh instance answered with two of the three files of the previous
\* index, and the omitted file was a contender for a haste id
C13_Witness ==
  /\ BuildDone
  /\ ~changedFiles.present
  /\ Cardinality(DOMAIN loadedIndex.files) = 3
  /\ Cardinality(DOMAIN disk) = 2
  /\ \E p \in Omitted :
       InDuplicates(loadedIndex.duplicates, loadedIndex.files[p].id, p)

(***************************************************************************)
(* C14: however many times build() is called, the cycle is started once,   *)
(* and every call hands its caller the same resolved index.                *)
(***************************************************************************)
C14_BuildSingleShot ==
  Len(buildReturned) >= 2 =>
    \A i \in 1..Len(buildReturned) :
      /\ Len(buildReturned[i]) = 1
      /\ buildReturned[i] = buildReturned[1]

(***************************************************************************)
(* C15: a build whose load, crawl and processing succeeded has emitted a   *)
(* ready event that carries the final index; a build that failed has       *)
(* emitted none.                                                           *)
(***************************************************************************)
\* a ready event carrying the index hm
ReadyEvent(hm) == [type |-> "ready", index |-> IndexOf(hm)]

C15_ReadyEmitted ==
  /\ BuildDone => \E i \in 1..Len(events) : events[i] = ReadyEvent(hasteMap)
  /\ pc = "failed" => \A i \in 1..Len(events) : events[i].type # "ready"

(***************************************************************************)
(* C16 (I4): after a successful build every entry of files has visited     *)
(* true: package.json files, files under node_modules and files the crawl  *)
(* entered as pristine included.                                           *)
(***************************************************************************)
C16_AllVisited ==
  BuildDone => \A p \in DOMAIN hasteMap.files : hasteMap.files[p].visited = 1

(***************************************************************************)
(* C17: after a successful crawl the clock stored for the queried watch    *)
(* root, under its path relative to rootDir, is the string local clock of  *)
(* the response: the response's clock when it is a string, its inner clock *)
(* when it is an SCM object; never the SCM object.                         *)
(***************************************************************************)
\* the crawl has returned
Crawled == pc \in {"buildHasteMap", "process", "done"}

C17_LocalClockStored ==
  Crawled =>
    /\ "" \in DOMAIN hasteMap.clocks
    /\ hasteMap.clocks[""] \notin ScmClockSpecs
    /\ (daemon.clock = "c2") => hasteMap.clocks[""] = "c2"
    /\ (daemon.clock \in ScmClockSpecs) => hasteMap.clocks[""] = "c3"

\* a crawl, started with the clock of a cached index, got an SCM object as
\* the clock of its response
C17_Witness ==
  /\ BuildDone
  /\ daemon.clock \in ScmClockSpecs
  /\ "" \in DOMAIN loadedIndex.clocks
  /\ loadedIndex.clocks[""] = "c1"

(***************************************************************************)
(* C18: with computeSha1 set, after a successful build every entry of      *)
(* files carries a digest.                                                 *)
(***************************************************************************)
C18_DigestEverywhere ==
  (options.computeSha1 /\ BuildDone) =>
    \A p \in DOMAIN hasteMap.files : hasteMap.files[p].sha1 \in Sha1Hexes

(***************************************************************************)
(* C19: loading the prior index never fails the build.  With the cache     *)
(* file missing, unreadable or undecodable, or with resetCache set, the    *)
(* crawl starts from an empty index, and nothing is thrown or warned.      *)
(***************************************************************************)
\* the cache file cannot be used, or must not be
NoUsableCache ==
  Len(cacheFile) = 0 \/ cacheFault \in CacheFaults \/ options.resetCache

C19_LoadNeverFails ==
  /\ pc = "crawl" =>
       /\ thrown = <<>>
       /\ warnings = <<>>
       /\ NoUsableCache => hasteMap = createEmptyMap
  /\ pc = "failed" => daemon.failing

\* a build went on to its end although a cache file that exists could not be
\* read or decoded
C19_Witness ==
  /\ BuildDone
  /\ Len(cacheFile) = 1
  /\ DOMAIN cacheFile[1].files # {}
  /\ cacheFault \in CacheFaults
  /\ ~options.resetCache

(***************************************************************************)
(* C20: when the query of the watch root fails, the crawl fails as a       *)
(* whole: the caller of build gets the error, the index is exactly the one *)
(* loaded before the crawl, and the cache file is as it was.               *)
(***************************************************************************)
C20_CrawlFailsWhole ==
  (pc = "failed" /\ daemon.failing) =>
    /\ thrown = <<WatchmanError>>
    /\ hasteMap = loadedIndex
    /\ \E i \in 1..Len(buildReturned) : buildReturned[i] = thrown

(***************************************************************************)
(* C21: when the processing of a file fails with code ENOENT or EACCES the *)
(* file is dropped from files and nothing is raised; a failure with any    *)
(* other code, or with none, is raised and leaves files as they were.      *)
(***************************************************************************)
C21_UnreadableDropped ==
  pc = "process" =>
    \A p \in (Processable \ handled) \cap DOMAIN hasteMap.files :
      \A error \in WorkerErrors(p) :
        LET r == workerEror(hasteMap, p, error)
        IN  IF error.code \in {"ENOENT", "EACCES"}
              THEN /\ r.thrown = <<>>
                   /\ r.hasteMap = [hasteMap EXCEPT !.files = MapDelete(@, p)]
              ELSE /\ r.thrown # <<>>
                   /\ r.hasteMap.files = hasteMap.files

C23_WorkerPure ==
  /\ \A i, j \in 1..Len(workerLog) :
       workerLog[i].data = workerLog[j].data =>
         /\ workerLog[i].thrown = workerLog[j].thrown
         /\ workerLog[i].id = workerLog[j].id
  /\ \A i \in 1..Len(workerLog) :
       workerLog[i].data.hasteImplModulePath = Null => workerLog[i].id = Null

(***************************************************************************)
(* C24: after a build that reconciled changes the resulting index is what  *)
(* the cache file holds, and reading the cache file gives that index back, *)
(* so that a later builder with the same configuration starts from it.     *)
(***************************************************************************)
C24_PersistedRoundTrip ==
  (BuildDone /\ Len(dispatched) = 1) =>
    /\ cacheFile = <<hasteMap>>
    /\ read = hasteMap

(***************************************************************************)
(* The crawl of the watch roots as the claims about it see it.             *)
(***************************************************************************)
\* the crawl has returned and nothing has touched its result yet
JustCrawled ==
  /\ Len(responses) > 0
  /\ pc = "buildHasteMap" \/ (pc = "done" /\ Len(dispatched) = 0)

\* the files the responses list: [path relative to rootDir, fileData, index
\* of the response]
Listed ==
  UNION {{[path |-> RelativeFilePath(responses[i].watchRoot,
                                     responses[i].response.files[k].name),
           fileData |-> responses[i].response.files[k],
           response |-> i] :
            k \in 1..Len(responses[i].response.files)} : i \in 1..Len(responses)}

\* the entries of the index the crawl started from
Previous == loadedIndex.files

\* a listed digest that is a string of 40 characters
ValidSha1(fileData) == fileData.sha1hex \in Sha1Hexes

\* the previous entry holds for the listed file: same mtime
SameMtime(l) == l.path \in DOMAIN Previous /\ Previous[l.path].mtime = l.fileData.mtime_ms

\* the listed file was touched but its content is the previous content
SameContent(l) ==
  /\ l.path \in DOMAIN Previous
  /\ ~SameMtime(l)
  /\ ValidSha1(l.fileData)
  /\ Previous[l.path].sha1 = l.fileData.sha1hex

(***************************************************************************)
(* C25: for each file a response lists as existing the crawler stores the  *)
(* previous entry if there is one with the same mtime; else the previous   *)
(* entry with the mtime replaced if the response carries a valid digest    *)
(* equal to the previous entry's; else a pristine entry (no id, not        *)
(* visited, no dependencies, the listed mtime and size, the listed digest  *)
(* or none).  The path and that entry are in files and in changed.         *)
(***************************************************************************)
C25_ExistingFileEntry ==
  JustCrawled =>
    \A l \in Listed :
      l.fileData.exists =>
        LET expected ==
              IF SameMtime(l) THEN Previous[l.path]
              ELSE IF SameContent(l)
                THEN [Previous[l.path] EXCEPT !.mtime = l.fileData.mtime_ms]
              ELSE FileMetaData("", l.fileData.mtime_ms, l.fileData.size, 0, <<>>,
                                IF ValidSha1(l.fileData) THEN l.fileData.sha1hex
                                ELSE Null)
        IN  /\ l.path \in DOMAIN hasteMap.files
            /\ hasteMap.files[l.path] = expected
            /\ changedFiles.present =>
                 /\ l.path \in DOMAIN changedFiles.entries
                 /\ changedFiles.entries[l.path] = expected

\* one crawl with a file in each of the three cases
C25_Witness ==
  /\ JustCrawled
  /\ changedFiles.present
  /\ \E l \in Listed : l.fileData.exists /\ SameContent(l)
                          /\ hasteMap.files[l.path].visited = 1
  /\ \E l \in Listed : l.fileData.exists /\ ~SameMtime(l) /\ ~SameContent(l)
                          /\ l.path \in DOMAIN Previous

(***************************************************************************)
(* C26: in a crawl that is not fresh a file listed as not existing is      *)
(* deleted from files and put in removed with its previous entry if and    *)
(* only if the previous index had it (the deletion of a file that was not  *)
(* tracked changes nothing), and every file no response lists keeps its    *)
(* entry in files.                                                         *)
(***************************************************************************)
C26_DeletionsAndFrame ==
  (JustCrawled /\ changedFiles.present) =>
    LET deleted == {l.path : l \in {x \in Listed : ~x.fileData.exists}}
        listed == {l.path : l \in Listed}
    IN  /\ \A p \in deleted :
             /\ p \notin DOMAIN hasteMap.files
             /\ p \notin DOMAIN changedFiles.entries
             /\ p \in DOMAIN removedFiles <=> p \in DOMAIN Previous
             /\ p \in DOMAIN Previous => removedFiles[p] = Previous[p]
        /\ DOMAIN removedFiles \subseteq deleted
        /\ \A p \in (DOMAIN Previous) \ listed :
             /\ p \in DOMAIN hasteMap.files
             /\ hasteMap.files[p] = Previous[p]
        /\ DOMAIN hasteMap.files \subseteq (DOMAIN Previous) \cup listed

\* a tracked file and an untracked file are listed as deleted, a third file
\* is not listed
C26_Witness ==
  /\ JustCrawled
  /\ changedFiles.present
  /\ \E l \in Listed : ~l.fileData.exists /\ l.path \in DOMAIN Previous
  /\ \E l \in Listed : ~l.fileData.exists /\ l.path \notin DOMAIN Previous
  /\ \E p \in DOMAIN Previous : p \notin {l.path : l \in Listed}

(***************************************************************************)
(* C27: in a fresh crawl removed is exactly the files of the previous      *)
(* index that are absent now; with several watch roots of which only some  *)
(* answer fresh, a file that still exists under a root that did not, and   *)
(* that its response does not list, is not in removed and stays in files.  *)
(***************************************************************************)
C27_FreshRemovedExact ==
  (JustCrawled /\ ~changedFiles.present) =>
    /\ DOMAIN removedFiles = (DOMAIN Previous) \ (DOMAIN disk)
    /\ \A p \in DOMAIN removedFiles : removedFiles[p] = Previous[p]
    /\ \A p \in (DOMAIN Previous) \cap (DOMAIN disk) :
         p \notin {l.path : l \in Listed} =>
           /\ p \notin DOMAIN removedFiles
           /\ p \in DOMAIN hasteMap.files

(***************************************************************************)
(* C28: when the crawl returns no changed set or a removed set that is not *)
(* empty, reconciliation starts from an empty map, processes every entry   *)
(* of files, and the rebuilt map becomes the map of the index; otherwise   *)
(* the prior map is retained and exactly the files in changed are          *)
(* processed.                                                              *)
(***************************************************************************)
C28_ProcessingSelection ==
  (BuildDone /\ Len(dispatched) = 1) =>
    IF ~changedFiles.present \/ DOMAIN removedFiles # {}
      THEN /\ dispatched[1].map = EmptyMap
           /\ ~dispatched[1].mapIsHasteMap
           /\ filesToProcess = DOMAIN dispatched[1].hasteMap.files
           /\ handled = filesToProcess
           /\ hasteMap.map = map
      ELSE /\ dispatched[1].mapIsHasteMap
           /\ dispatched[1].map = dispatched[1].hasteMap.map
           /\ filesToProcess = DOMAIN changedFiles.entries
           /\ handled = filesToProcess
           /\ hasteMap.map = map

(***************************************************************************)
(* C29: when the crawl returns a changed set that is present and empty and *)
(* an empty removed set, the build processes and reconciles nothing, and   *)
(* files, map, duplicates and mocks of the index are those read from the   *)
(* cache.                                                                  *)
(***************************************************************************)
NothingChanged ==
  /\ pc \in {"buildHasteMap", "process", "done"}
  /\ changedFiles.present
  /\ DOMAIN changedFiles.entries = {}
  /\ DOMAIN removedFiles = {}

C29_NothingChangedNoWork ==
  NothingChanged =>
    /\ pc = "done"
    /\ Len(dispatched) = 0
    /\ handled = {}
    /\ warnings = <<>>
    /\ thrown = <<>>
    /\ hasteMap.files = loadedIndex.files
    /\ hasteMap.map = loadedIndex.map
    /\ hasteMap.duplicates = loadedIndex.duplicates
    /\ hasteMap.mocks = loadedIndex.mocks

\* the cache held an index with a module, and nothing changed since
C29_Witness ==
  /\ NothingChanged
  /\ pc = "done"
  /\ DOMAIN hasteMap.map # {}
  /\ DOMAIN hasteMap.files # {}

(***************************************************************************)
(* C30: applying the worker result of file p with id N while map[N][g]     *)
(* already points at p is no collision: nothing is warned, duplicates is   *)
(* unchanged and map[N][g] ends as the new entry for p.  Applying the same *)
(* worker result twice leaves the same index as applying it once.          *)
(***************************************************************************)
\* the map the results are applied to resolves the id of p to p itself
PointsAtItself(p) ==
  /\ pc = "process"
  /\ p \in (Processable \ handled) \cap DOMAIN hasteMap.files
  /\ WorkerResultFor(p).id # Null
  /\ Resolves(map, WorkerResultFor(p).id)
  /\ map[WorkerResultFor(p).id][GENERIC_PLATFORM].path = p

C30_SamePathNoCollision ==
  [][\A p \in Paths :
       LET metadata == WorkerResultFor(p)
           N == metadata.id
           once == processReply(Now, p, metadata)
           twice == processReply(once, p, metadata)
       IN  (PointsAtItself(p) /\ handled' = handled \cup {p})
           =>
           ( /\ warnings' = warnings
             /\ hasteMap'.duplicates = hasteMap.duplicates
             /\ Resolves(map', N)
             /\ map'[N][GENERIC_PLATFORM] = metadata.module
             /\ Resolves(hasteMap'.map, N)
             /\ hasteMap'.map[N][GENERIC_PLATFORM] = metadata.module
             /\ hasteMap' = once.hasteMap
             /\ twice = once )
    ]_vars

\* the result of a retouched file that the prior map resolves its id to has
\* been applied
C30_Witness ==
  /\ pc = "process"
  /\ mapIsHasteMap
  /\ \E p \in handled :
       /\ disk[p].name # NoName
       /\ p \in DOMAIN dispatched[1].hasteMap.files
       /\ Resolves(dispatched[1].map, disk[p].name)
       /\ dispatched[1].map[disk[p].name][GENERIC_PLATFORM].path = p
       /\ Resolves(map, disk[p].name)
       /\ map[disk[p].name][GENERIC_PLATFORM].path = p

(***************************************************************************)
(* C31: when duplicates[id][g] holds three or more paths and one of them   *)
(* is removed, recoverDuplicates only deletes that path from               *)
(* duplicates[id][g]: map is unchanged, no file is promoted, and id stays  *)
(* in duplicates with the remaining paths.                                 *)
(***************************************************************************)
\* the cached index lists three or more paths under id, A among them, and
\* the only edit since is the deletion of A
DeletedOneOfMany(id, A) ==
  /\ Len(cacheFile) = 1
  /\ id \in DOMAIN read.duplicates
  /\ A \in DOMAIN read.duplicates[id][GENERIC_PLATFORM]
  /\ Cardinality(DOMAIN read.duplicates[id][GENERIC_PLATFORM]) >= 3
  /\ DOMAIN disk = (DOMAIN prevDisk) \ {A}
  /\ \A p \in DOMAIN disk : disk[p] = prevDisk[p]

C31_ManyContendersFrame ==
  /\ \A id \in DOMAIN hasteMap.duplicates :
       ( /\ GENERIC_PLATFORM \in DOMAIN hasteMap.duplicates[id]
         /\ Cardinality(DOMAIN hasteMap.duplicates[id][GENERIC_PLATFORM]) >= 3 )
       => \A A \in DOMAIN hasteMap.duplicates[id][GENERIC_PLATFORM] :
            recoverDuplicates(hasteMap, A, id)
              = [hasteMap EXCEPT
                   !.duplicates[id][GENERIC_PLATFORM] = MapDelete(@, A)]
  /\ BuildDone =>
       \A id \in HasteNames : \A A \in Paths :
         DeletedOneOfMany(id, A) =>
           /\ hasteMap.map = read.map
           /\ ~Resolves(hasteMap.map, id)
           /\ id \in DOMAIN hasteMap.duplicates
           /\ hasteMap.duplicates[id][GENERIC_PLATFORM]
                = MapDelete(read.duplicates[id][GENERIC_PLATFORM], A)

\* a build has ended after one of three colliding files was deleted
C31_Witness ==
  /\ BuildDone
  /\ \E id \in HasteNames : \E A \in Paths : DeletedOneOfMany(id, A)

(***************************************************************************)
(* C32: when all the files that claim an id listed in duplicates are       *)
(* removed in one crawl, after the build the id is neither in map nor in   *)
(* duplicates, and no map entry points at a removed file, whatever the     *)
(* order in which the removed files are handed to recoverDuplicates.       *)
(***************************************************************************)
\* every path the loaded index lists under id in duplicates is in removed,
\* and no file of the tree claims id
AllContendersRemoved(id) ==
  /\ id \in DOMAIN loadedIndex.duplicates
  /\ GENERIC_PLATFORM \in DOMAIN loadedIndex.duplicates[id]
  /\ DOMAIN loadedIndex.duplicates[id][GENERIC_PLATFORM] \subseteq DOMAIN removedFiles
  /\ \A p \in DOMAIN disk : disk[p].name # id

C32_AllContendersRemoved ==
  (BuildDone /\ Len(dispatched) = 1) =>
    \A id \in HasteNames :
      AllContendersRemoved(id) =>
        /\ id \notin DOMAIN hasteMap.map
        /\ id \notin DOMAIN hasteMap.duplicates
        /\ \A n \in DOMAIN hasteMap.map :
             GENERIC_PLATFORM \in DOMAIN hasteMap.map[n] =>
               hasteMap.map[n][GENERIC_PLATFORM].path \notin DOMAIN removedFiles

(***************************************************************************)
(* C33: committing a worker result that carries no sha1 leaves             *)
(* files[p].sha1 as it was, for example the digest the crawler supplied;   *)
(* sha1 is overwritten only when the worker result provides one.           *)
(***************************************************************************)
C33_Sha1KeptWithoutDigest ==
  [][\A p \in DOMAIN disk :
       ( /\ pc = "process"
         /\ p \in (Processable \ handled) \cap DOMAIN hasteMap.files
         /\ handled' = handled \cup {p}
         /\ thrown' = <<>> )
       =>
       hasteMap'.files[p].sha1 =
         IF WorkerResultFor(p).sha1 = Null THEN hasteMap.files[p].sha1
         ELSE WorkerResultFor(p).sha1
    ]_vars

(***************************************************************************)
(* C34: resolving the roots yields, for each watch root, the empty list if *)
(* a root resolved to it with an empty relative path, and otherwise the    *)
(* relative paths resolved under it; the result is the same for every      *)
(* order in which the answers arrive.                                      *)
(***************************************************************************)
\* every answer has arrived
RootsResolved == roots # <<>> /\ replied = DOMAIN roots

\* the watch roots of the answers, and the answers under one of them
WatchesOf(rs) == {rs[i].watch : i \in DOMAIN rs}
Under(rs, w) == {i \in DOMAIN rs : rs[i].watch = w}
WatchedWhole(rs, w) == \E i \in Under(rs, w) : rs[i].relative_path = ""

\* how often a list holds a value
Count(list, e) == Cardinality({k \in DOMAIN list : list[k] = e})

\* the list holds the relative paths of these answers, each as often as it
\* was answered, in some order
ListsPathsOf(list, rs, I) ==
  /\ Len(list) = Cardinality(I)
  /\ \A i \in I :
       Count(list, rs[i].relative_path)
         = Cardinality({j \in I : rs[j].relative_path = rs[i].relative_path})

\* the result the claim describes, the lists taken up to their order
ResolvedAsClaimed(hash, rs) ==
  /\ DOMAIN hash = WatchesOf(rs)
  /\ \A w \in WatchesOf(rs) :
       IF WatchedWhole(rs, w) THEN hash[w] = <<>>
       ELSE ListsPathsOf(hash[w], rs, Under(rs, w))

\* the claim as it stands: the Map is the same Map, list for list, for
\* every order of arrival
C34_RootsOrderIndependent ==
  RootsResolved =>
    /\ ResolvedAsClaimed(watchmanRootsHash, roots)
    /\ \A order \in OrdersOf(DOMAIN roots) :
         getWathmanRoots(EmptyMap, roots, order, 1) = watchmanRootsHash

\* the claim with the lists compared up to the order of their elements
C34_RootsOrderIndependentUpToOrder ==
  RootsResolved =>
    /\ ResolvedAsClaimed(watchmanRootsHash, roots)
    /\ \A order \in OrdersOf(DOMAIN roots) :
         ResolvedAsClaimed(getWathmanRoots(EmptyMap, roots, order, 1), roots)

\* one watch root was answered as a whole and with two directories
C34_Witness ==
  /\ RootsResolved
  /\ \E w \in WatchesOf(roots) :
       /\ WatchedWhole(roots, w)
       /\ Cardinality({roots[i].relative_path : i \in Under(roots, w)}) = 3
       /\ watchmanRootsHash[w] = <<>>

(***************************************************************************)
(* C35: the crawl is fresh exactly when at least one response to a query   *)
(* that is no SCM query has is_fresh_instance set.  That flag on the       *)
(* response to a query whose since clock is an SCM object never resets     *)
(* files, never reports previous files as removed and never makes the      *)
(* crawl return changed as absent.                                         *)
(***************************************************************************)
\* the query of response i was sent with an SCM object as since
ScmQuery(i) == isSourceControlQuery(loadedIndex.clocks, responses[i].watchRoot)

\* some response to a query that is no SCM query says fresh instance
FreshAnswered ==
  \E i \in 1..Len(responses) : ~ScmQuery(i) /\ responses[i].response.is_fresh_instance

\* files was not reset: what no response lists is kept, and only files
\* listed as not existing are in removed
NotReset ==
  /\ \A p \in (DOMAIN Previous) \ {l.path : l \in Listed} :
       p \in DOMAIN hasteMap.files /\ hasteMap.files[p] = Previous[p]
  /\ DOMAIN removedFiles
       = {l.path : l \in {x \in Listed : ~x.fileData.exists}} \cap DOMAIN Previous

C35_FreshOnlyFromLocalQueries ==
  JustCrawled =>
    /\ changedFiles.present <=> ~FreshAnswered
    /\ ~FreshAnswered => NotReset
    /\ FreshAnswered =>
         /\ DOMAIN hasteMap.files = {l.path : l \in {x \in Listed : x.fileData.exists}}
         /\ DOMAIN removedFiles
              = (DOMAIN Previous) \ {l.path : l \in {x \in Listed : x.fileData.exists}}

\* only the response to an SCM query said fresh instance, and a file of the
\* previous index that no response lists is still tracked
C35_Witness ==
  /\ JustCrawled
  /\ \E i \in 1..Len(responses) : ScmQuery(i) /\ responses[i].response.is_fresh_instance
  /\ ~FreshAnswered
  /\ changedFiles.present
  /\ \E p \in DOMAIN Previous : p \notin {l.path : l \in Listed} /\ p \in DOMAIN hasteMap.files

(***************************************************************************)
(* C36: across consecutive crawls over the same index the since clock sent *)
(* for a watch root is the clock string the crawl before stored for that   *)
(* root, under the key it was stored under (the path of the watch root     *)
(* relative to rootDir); a watch root with no stored clock is queried      *)
(* without since, by a glob query that includes dotfiles, and a root with  *)
(* a stored clock is queried without glob.                                 *)
(***************************************************************************)
C36_ClockContinuity ==
  \A k \in 1..Len(queries) :
    \A i \in 1..Len(queries[k].sent) :
      LET watchRoot == queries[k].sent[i].watchRoot
          key == RelativeRoot(watchRoot)
          q == queries[k].sent[i].query
          before == IF k = 1 THEN loadedIndex.clocks ELSE queries[k - 1].clocks
      IN  /\ q.since = IF key \in DOMAIN before THEN <<before[key]>> ELSE <<>>
          /\ q.since = <<>> => (q.glob /\ q.glob_includedotfiles)
          /\ q.since # <<>> => (~q.glob /\ ~q.glob_includedotfiles)
          /\ key \in DOMAIN queries[k].clocks
          /\ queries[k].clocks[key] = localClock(queries[k].results[i].response)
          /\ queries[k].clocks[key] \notin ScmClockSpecs
          /\ k > 1 => (q.since # <<>> /\ q.since[1] = queries[k - 1].clocks[key])

\* a first crawl without clocks, then a crawl that sends what the first
\* stored
C36_Witness ==
  /\ Len(queries) = 2
  /\ \E i \in 1..Len(WatchRoots) :
       /\ queries[1].sent[i].query.since = <<>>
       /\ queries[2].sent[i].query.since = <<ScmLocalClock>>

(***************************************************************************)
(* C37: every id that is a key of map has an entry for the generic         *)
(* platform: neither setModule for a new id, nor setModule on a collision, *)
(* nor recoverDuplicates promoting a survivor leaves an id in map whose    *)
(* platform map is empty.                                                  *)
(***************************************************************************)
C37_NoEmptyPlatformMap ==
  /\ \A id \in DOMAIN map : GENERIC_PLATFORM \in DOMAIN map[id]
  /\ \A id \in DOMAIN hasteMap.map : GENERIC_PLATFORM \in DOMAIN hasteMap.map[id]

(***************************************************************************)
(* C38: for the same responses of the watch roots, each path listed by at  *)
(* most one of them, the files, changed, removed and clocks the crawl      *)
(* returns do not depend on the order in which the queries complete.       *)
(***************************************************************************)
\* the responses in the order `order` of completion
Completed(order) == [k \in 1..Len(responses) |-> responses[order[k]]]

\* no path is listed twice
ListedOnce ==
  \A l1, l2 \in Listed : l1.path = l2.path => l1 = l2

C38_CompletionOrderIrrelevant ==
  (JustCrawled /\ ListedOnce) =>
    \A order \in OrdersOf(1..Len(responses)) :
      LET data == watchmanCrawl(loadedIndex, Completed(order))
      IN  /\ data.hasteMap.files = hasteMap.files
          /\ data.hasteMap.clocks = hasteMap.clocks
          /\ data.changedFiles = changedFiles
          /\ data.removedFiles = removedFiles

\* both responses list files, one of them says fresh instance
C38_Witness ==
  /\ JustCrawled
  /\ ListedOnce
  /\ \A i \in 1..Len(responses) : Len(responses[i].response.files) > 0
  /\ \E i, j \in 1..Len(responses) :
       /\ responses[i].response.is_fresh_instance
       /\ ~responses[j].response.is_fresh_instance
  /\ DOMAIN removedFiles # {}

(***************************************************************************)
(* C39: after a successful crawl in which each path is listed at most      *)
(* once, every path in changed (when changed is present) is a key of files *)
(* with the identical entry, no path is both in removed and in files, and  *)
(* every path in removed was a key of the files of the previous index.     *)
(***************************************************************************)
C39_CrawlResultConsistent ==
  (JustCrawled /\ ListedOnce) =>
    /\ changedFiles.present =>
         \A p \in DOMAIN changedFiles.entries :
           /\ p \in DOMAIN hasteMap.files
           /\ hasteMap.files[p] = changedFiles.entries[p]
    /\ (DOMAIN removedFiles) \cap (DOMAIN hasteMap.files) = {}
    /\ DOMAIN removedFiles \subseteq DOMAIN Previous

\* a crawl that is not fresh with a changed file and a removed file
C39_Witness ==
  /\ JustCrawled
  /\ ListedOnce
  /\ changedFiles.present
  /\ DOMAIN changedFiles.entries # {}
  /\ DOMAIN removedFiles # {}

(***************************************************************************)
(* C40: every crawl closes its connection to the watch daemon before it    *)
(* returns or fails, on every path: when the resolution of the roots or a  *)
(* query fails, and also when the capability check or the listing of the   *)
(* capabilities before them fails.                                         *)
(***************************************************************************)
C40_ClientAlwaysEnded ==
  crawlStep \in {"returned", "failed"} => client = "ended"

====
